---- MODULE Spec2Model ----
(***************************************************************************)
(* Model of the interactive Christmas-tree scene (jygv5jcgdg-debug/treee). *)
(*                                                                         *)
(* Numbers.  Lengths are fixed-point integers counted in 1/PosUnit; a      *)
(* Math.random() draw is a percentage p standing for p/100, taken from a   *)
(* small sample set.  The samples are chosen so that every product and     *)
(* quotient below is exact.                                                *)
(***************************************************************************)
EXTENDS Integers, Sequences, FiniteSets, TLC

\* ------------------------------------------------------------------ bounds
\* Scaled-down loop sizes (the source values are in the comments).
TargetCount == 2        \* CONSTANTS.ORNAMENT_COUNT, 600 in the source
ExtraCount == 2         \* extraCount, 120 in the source
FoliageCount == 1       \* CONSTANTS.FOLIAGE_COUNT, 24000 in the source
MaxPhotos == 2          \* uploads accepted
MaxNow == 1             \* the clock readings Date.now() can return: Epoch + 0..MaxNow
MaxModeWrites == 2      \* where the count of setTreeState calls saturates
MaxFrames == 3          \* frames rendered
MaxMounts == 1          \* times the camera is switched on
MaxHandFrames == 3      \* video frames that show a hand
ShortFeed == 4          \* video frames of a short camera feed
QuietFrames == 30       \* the run of frames without a hand that is counted
AppHandFrames == 1      \* frames that show a hand while the UI is used as well
AppFeed == 2            \* video frames of the feed while the UI is used as well

\* ------------------------------------------------------- program constants
maxAttempts == 50
TREE_HEIGHT == 18
SCATTER_RADIUS == 35

PosUnit == 20 * 100                 \* one length unit
ScaleUnit == 100 * 1000             \* one unit of the scale signal
TREE_RADIUS == (13 * PosUnit) \div 2   \* 6.5

\* An optional argument is a sequence: empty when the argument is left out.
Undefined == <<>>

Abs(x) == IF x < 0 THEN -x ELSE x

\* --------------------------------------------------- samples of Math.random
TypeRands == {10, 40, 60, 70, 90}   \* one draw in each branch of the type chain
ScaleRands == {25}
CRands == {10, 80}                  \* gold / not gold
BellRands == {10}                   \* below 0.4: a gold sphere becomes a bell
YRands == {10}                      \* y = -7.2
BottomYRands == {45}                \* y = -7.2
RBiasRands == {0, 40}               \* rBias 0.9 and 1.0
FoliageBiasRands == {25}            \* a perfect square: sqrt is 0.5, rBias 0.7
\* Directions (cos, sin) in fifths.  angle = Math.random() * 2 * PI reaches
\* every direction; the model uses directions with rational coordinates.
Dirs == {<<5, 0>>, <<-4, 3>>}
FoliageDirs == {<<-4, 3>>}
SphereDirs == {<<0, -3, 4>>}          \* a direction in space, in fifths
CubeRands == {729}                    \* thousandths, a perfect cube: cbrt is 0.9
\* The same draws over their range, for the scatter positions on their own.
WideScatterRands == {<<60, 36, 50>>, <<50, 50, 50>>, <<2, 2, 50>>, <<96, 4, 90>>, <<0, 50, 50>>}
WideSphereDirs == {<<0, -3, 4>>, <<5, 0, 0>>, <<0, 0, -5>>}
WideCubeRands == {0, 125, 729}
ScatterRands == {<<60, 36, 50>>}      \* scatterPos (5.25, -7.35, 0)
StarScatterRands == {<<50, 0, 0>>}    \* sPos (0, 25, 12)
PhotoScatterRands == {<<50, 50, 50>>} \* scatterPos (0, 0, 0)
PhotoYRands == {50}                   \* y = 0
PhotoDirs == {<<5, 0>>}
PhotoSpinRands == {0}
ImageSizes == {<<16, 9>>}             \* img.width, img.height
StarSines == {1000}                   \* sin(time * 2.0), in thousandths
PhotoSines == {1000}                  \* sin(time * 2 + parseInt(id)), in thousandths
\* Hand landmarks, in thousandths of the image size.  A hand is built from its
\* wrist x, the offset of its four fingertips from the wrist and the offset of
\* the thumb tip from the index tip; the offsets are Pythagorean, so that
\* Math.hypot is exact (the hands themselves are listed with the controller).
ScaleSamples == {ScaleUnit, (19 * ScaleUnit) \div 10, (11 * ScaleUnit) \div 2, 10 * ScaleUnit}
RotSamples == {0, 1000}
QuarterTurns == {0, 1}                \* frame deltas turning the tree by whole quarter turns

VARIABLES
  gpc,          \* where the one-time generation (the useMemo bodies) stands
  positions,    \* Foliage: tree positions generated so far
  scat,         \* Foliage: scatter positions generated so far
  placedItems,  \* Ornaments: accepted (pos, radius) pairs
  data,         \* Ornaments: the per-category arrays sData, bData, ...
  idCounter,
  loopI,        \* the loop variable i of the pass that is running
  placedCount,
  extraPlaced,
  attempts,     \* createItem: the local attempts of the call in progress (0 between calls)
  callId,       \* createItem: the id argument of the call in progress
  overrideY,    \* createItem: the overrideY argument of the call in progress
  lastCall,     \* outcome of the last createItem call that returned
  treeState,    \* App: the Mode
  photos,       \* App: the uploaded photos
  photoScale,   \* App: the scale signal
  rotationMod,  \* App: the rotation bias
  uploads,      \* App: uploads in flight (file read or image decode pending)
  now,          \* the last value Date.now() returned, counted from Epoch
  modeWrites,   \* calls of setTreeState so far (saturating count)
  posArr,       \* Ornaments: the live position of each ornament, by id
  star,         \* TopStar: the memoised scatterPos and treePos, and the mesh position
  framePos,     \* FrameMesh: group position of each photo
  frameScale,   \* FrameMesh: group scale of each photo
  planeArgs,    \* FrameMesh: the planeGeometry args (width, height) of each photo
  uMorphFactor, \* Foliage: the morph factor uniform
  groupRot,     \* TreeGroup: rotation.y, in quarter turns
  worldRot,     \* TreeGroup: the rotation in matrixWorld (as of the last render)
  frame,        \* frames rendered so far
  isCameraEnabled, \* App: the camera toggle
  gc,           \* one record per GestureController mounted so far: its effect's
                \* closure variables, its refs and what it holds of the browser
  quiet,        \* processed video frames in a row without a hand (saturating count)
  handsLeft,    \* video frames still to come that show a hand
  videoEnd      \* the number of frames the camera feed delivers

genVars == <<gpc, positions, scat, placedItems, data, idCounter, loopI, placedCount,
             extraPlaced, attempts, callId, overrideY, lastCall>>

appVars == <<treeState, photos, photoScale, rotationMod, uploads, now, modeWrites>>

animVars == <<posArr, star, framePos, frameScale, planeArgs, uMorphFactor, groupRot, worldRot,
              frame>>

gestVars == <<isCameraEnabled, gc, quiet, handsLeft, videoEnd>>

vars == <<genVars, appVars, animVars, gestVars>>

\* ------------------------------------------------------------ cone geometry
\* normalizedY = (y + TREE_HEIGHT / 2) / TREE_HEIGHT
NormalizedY(y) == (y + (TREE_HEIGHT * PosUnit) \div 2) \div TREE_HEIGHT

\* coneRadiusAtY = TREE_RADIUS * (1.0 - normalizedY)
ConeRadius(y) == (TREE_RADIUS * (PosUnit - NormalizedY(y))) \div PosUnit

\* y = Math.random() * TREE_HEIGHT - TREE_HEIGHT / 2
MainY(p) == (p * TREE_HEIGHT * PosUnit) \div 100 - (TREE_HEIGHT * PosUnit) \div 2

\* bottomY = Math.random() * 4.0 - TREE_HEIGHT / 2.  The mutant draws over the
\* whole height.
BottomY_WholeHeight(p) == (p * TREE_HEIGHT * PosUnit) \div 100 - (TREE_HEIGHT * PosUnit) \div 2
BottomY(p) == (p * 4 * PosUnit) \div 100 - (TREE_HEIGHT * PosUnit) \div 2

\* rBias = 0.9 + Math.random() * 0.25
OrnamentBias_Sunk(p) == (8 * PosUnit) \div 10 + (p * PosUnit) \div 400
OrnamentBias(p) == (9 * PosUnit) \div 10 + (p * PosUnit) \div 400

\* (cos(angle) * r, y, sin(angle) * r)
ConePoint(dir, r, y) == <<(dir[1] * r) \div 5, y, (dir[2] * r) \div 5>>

\* Squared horizontal distance of a position from the tree axis.
AxisDist2(pos) == pos[1] * pos[1] + pos[3] * pos[3]

\* ------------------------------------------------------------- Foliage
\* Foliage useMemo, one iteration of the loop: the tree position of particle i.
\* rBias = 0.4 + 0.6 * sqrt(Math.random())
SqrtPct(p) == CHOOSE s \in 0..100 : s * s = 100 * p
FoliageBias(p) == (4 * PosUnit) \div 10 + (6 * PosUnit * SqrtPct(p)) \div 1000
FoliagePoint(yRand, biasRand, dir) ==
  LET y == MainY(yRand)
      maxRadiusAtY == ConeRadius(y)
      radius == (maxRadiusAtY * FoliageBias(biasRand)) \div PosUnit
  IN  ConePoint(dir, radius, y)

\* The scatter position of particle i: a point at distance
\* r = SCATTER_RADIUS * (0.5 + 0.5 * cbrt(Math.random())) from the origin, in
\* the direction (sin phi cos theta, sin phi sin theta, cos phi), here a unit
\* vector in fifths.  The draw is in thousandths and a perfect cube.
Cbrt(p) == CHOOSE c \in 0..10 : c * c * c = p
FoliageScatter(dir, cubeRand) ==
  LET r == (SCATTER_RADIUS * PosUnit * (50 + 5 * Cbrt(cubeRand))) \div 100
  IN  <<(r * dir[1]) \div 5, (r * dir[2]) \div 5, (r * dir[3]) \div 5>>

FoliageStep ==
  /\ gpc = "foliage"
  /\ IF Len(positions) < FoliageCount
       THEN /\ \E yRand \in YRands, biasRand \in FoliageBiasRands, dir \in FoliageDirs :
                 positions' = Append(positions, FoliagePoint(yRand, biasRand, dir))
            /\ \E dir \in SphereDirs, cubeRand \in CubeRands :
                 scat' = Append(scat, FoliageScatter(dir, cubeRand))
            /\ gpc' = gpc
       ELSE /\ gpc' = "main"
            /\ positions' = positions
            /\ scat' = scat
  /\ UNCHANGED <<placedItems, data, idCounter, loopI, placedCount, extraPlaced,
                 attempts, callId, overrideY, lastCall>>
  /\ UNCHANGED <<appVars, animVars, gestVars>>

\* ------------------------------------------------------------- Ornaments
\* isColliding: dist < (radius + other.radius) * 0.85 for some placed item.
\* The distances are compared through their squares; the squares are formed
\* only when every coordinate difference is below the limit (otherwise the
\* distance is not below it), which keeps them within TLC's integers.
DistLess(p, q, limit) ==
  LET dx == Abs(p[1] - q[1])
      dy == Abs(p[2] - q[2])
      dz == Abs(p[3] - q[3])
  IN  /\ dx < limit
      /\ dy < limit
      /\ dz < limit
      /\ dx * dx + dy * dy + dz * dz < limit * limit

\* (radius + other.radius) * 0.85
CollisionLimit_Loose(radius, otherRadius) == ((radius + otherRadius) * 80) \div 100
CollisionLimit(radius, otherRadius) == ((radius + otherRadius) * 85) \div 100

isColliding(placed, pos, radius) ==
  \E k \in 1..Len(placed) :
     DistLess(pos, placed[k].pos, CollisionLimit(radius, placed[k].radius))

\* Step 1 of an attempt: the type, from typeRand and the filler override.
DrawnType(typeRand, ovY) ==
  IF ovY # Undefined THEN "bell"
  ELSE IF typeRand < 30 THEN "sphere"
  ELSE IF typeRand < 50 THEN "box"
  ELSE IF typeRand < 65 THEN "icicle"
  ELSE IF typeRand < 80 THEN "candyCane"
  ELSE "snowflake"

\* A gold sphere turns into a bell with probability 0.4.
FinalType(type, cRand, bellRand) ==
  IF type = "sphere" /\ cRand < 40 /\ bellRand < 40 THEN "bell" ELSE type

\* scale, by final type (a bell draws its scale again in the bell block).
ScaleOf(type, p) ==
  CASE type = "box"       -> (p * 4 * PosUnit) \div 1000 + (5 * PosUnit) \div 10
    [] type = "sphere"    -> (p * 4 * PosUnit) \div 1000 + (3 * PosUnit) \div 10
    [] type = "icicle"    -> (p * 5 * PosUnit) \div 1000 + (6 * PosUnit) \div 10
    [] type = "candyCane" -> (p * 4 * PosUnit) \div 1000 + (6 * PosUnit) \div 10
    [] type = "snowflake" -> (p * 4 * PosUnit) \div 1000 + (5 * PosUnit) \div 10
    [] type = "bell"      -> (p * 4 * PosUnit) \div 1000 + (5 * PosUnit) \div 10

\* collisionRadius, by final type and scale.
RadiusOf(type, scale) ==
  CASE type = "box"       -> (scale * 7) \div 10
    [] type = "sphere"    -> scale
    [] type = "icicle"    -> (2 * PosUnit) \div 10
    [] type = "candyCane" -> (3 * PosUnit) \div 10
    [] type = "snowflake" -> (scale * 6) \div 10
    [] type = "bell"      -> (scale * 6) \div 10

\* weight, in hundredths.
WeightOf(type) ==
  CASE type = "box"       -> 2
    [] type = "sphere"    -> 5
    [] type = "icicle"    -> 4
    [] type = "candyCane" -> 4
    [] type = "snowflake" -> 3
    [] type = "bell"      -> 3

\* The draws an attempt depends on: typeRand is overridden for a filler, and
\* cRand decides the type of a sphere only; where a draw decides nothing one
\* sample stands for all.
TypeDraws(ovY) == IF ovY = Undefined THEN TypeRands ELSE {CHOOSE p \in TypeRands : TRUE}
ColorDraws(type) == IF type = "sphere" THEN CRands ELSE {CHOOSE p \in CRands : TRUE}

\* Step 2 of an attempt: the tree position.
TreePoint(ovY, yRand, dir, rBiasRand) ==
  LET y == IF ovY # Undefined THEN ovY[1] ELSE MainY(yRand)
      coneRadiusAtY == ConeRadius(y)
      r == (coneRadiusAtY * OrnamentBias(rBiasRand)) \div PosUnit
  IN  ConePoint(dir, r, y)

\* sx = (Math.random() - 0.5) * SCATTER_RADIUS * 1.5, and sy, sz alike.
ScatterCoord(p) == ((p - 50) * SCATTER_RADIUS * 15 * PosUnit) \div 1000
OrnamentScatter(s) == <<ScatterCoord(s[1]), ScatterCoord(s[2]), ScatterCoord(s[3])>>

\* The per-category array an item of the given type is pushed to.
ArrayOf(type) ==
  CASE type = "box"       -> "bData"
    [] type = "sphere"    -> "sData"
    [] type = "icicle"    -> "iData"
    [] type = "candyCane" -> "cData"
    [] type = "bell"      -> "bellData"
    [] type = "snowflake" -> "snowData"

Arrays == {"sData", "bData", "iData", "cData", "bellData", "snowData"}

\* Main Generation Loop: the loop test, then either the call createItem(idCounter++)
\* or the move to the bottom filler loop.
\* A main loop that would hand every call the same id.
MainLoop_SameId ==
  /\ gpc = "main"
  /\ IF 2 * loopI < 3 * TargetCount /\ placedCount < TargetCount
       THEN /\ gpc' = "mainItem"
            /\ callId' = idCounter
            /\ idCounter' = idCounter
            /\ overrideY' = Undefined
            /\ attempts' = 0
            /\ loopI' = loopI
       ELSE /\ gpc' = "filler"
            /\ loopI' = 0
            /\ UNCHANGED <<callId, idCounter, overrideY, attempts>>
  /\ UNCHANGED <<positions, scat, placedItems, data, placedCount, extraPlaced, lastCall>>
  /\ UNCHANGED <<appVars, animVars, gestVars>>

MainLoop ==
  /\ gpc = "main"
  /\ IF 2 * loopI < 3 * TargetCount /\ placedCount < TargetCount
       THEN /\ gpc' = "mainItem"
            /\ callId' = idCounter
            /\ idCounter' = idCounter + 1
            /\ overrideY' = Undefined
            /\ attempts' = 0
            /\ loopI' = loopI
       ELSE /\ gpc' = "filler"
            /\ loopI' = 0
            /\ UNCHANGED <<callId, idCounter, overrideY, attempts>>
  /\ UNCHANGED <<positions, scat, placedItems, data, placedCount, extraPlaced, lastCall>>
  /\ UNCHANGED <<appVars, animVars, gestVars>>

\* Bottom Filler Loop: the loop test, then either the draw of bottomY and the
\* call createItem(idCounter++, bottomY) or the end of the generation.
FillerLoop ==
  /\ gpc = "filler"
  /\ IF 2 * loopI < 3 * ExtraCount /\ extraPlaced < ExtraCount
       THEN /\ gpc' = "fillerItem"
            /\ callId' = idCounter
            /\ idCounter' = idCounter + 1
            /\ \E p \in BottomYRands : overrideY' = <<BottomY(p)>>
            /\ attempts' = 0
       ELSE /\ gpc' = "done"
            /\ UNCHANGED <<callId, idCounter, overrideY, attempts>>
  /\ UNCHANGED <<positions, scat, placedItems, data, loopI, placedCount, extraPlaced, lastCall>>
  /\ UNCHANGED <<appVars, animVars, gestVars>>

\* What the caller does with an item createItem returned: the main loop pushes
\* it to the array of its type; the filler loop forces type bell and scale 0.7
\* and pushes it to bellData.
Returned(item) ==
  IF gpc = "mainItem"
    THEN /\ data' = [data EXCEPT ![ArrayOf(item.type)] = Append(@, item)]
         /\ placedCount' = placedCount + 1
         /\ extraPlaced' = extraPlaced
         /\ gpc' = "main"
    ELSE /\ data' = [data EXCEPT !["bellData"] =
                       Append(@, [item EXCEPT !.type = "bell",
                                              !.scale = (7 * PosUnit) \div 10])]
         /\ extraPlaced' = extraPlaced + 1
         /\ placedCount' = placedCount
         /\ gpc' = "filler"

\* createItem: the test of its while loop, attempts < maxAttempts.
CanRetry_OneMore(a) == a <= maxAttempts
CanRetry(a) == a < maxAttempts

\* createItem, one pass through the body of its while loop: draw a candidate,
\* test it against placedItems, and on success record it and return the item.
CreateItemAttempt ==
  /\ gpc \in {"mainItem", "fillerItem"}
  /\ CanRetry(attempts)
  /\ \E typeRand \in TypeDraws(overrideY) :
     \E cRand \in ColorDraws(DrawnType(typeRand, overrideY)), bellRand \in BellRands,
        scaleRand \in ScaleRands, yRand \in YRands, dir \in Dirs,
        rBiasRand \in RBiasRands :
       LET type == FinalType(DrawnType(typeRand, overrideY), cRand, bellRand)
           scale == ScaleOf(type, scaleRand)
           collisionRadius == RadiusOf(type, scale)
           treePos == TreePoint(overrideY, yRand, dir, rBiasRand)
       IN  IF ~isColliding(placedItems, treePos, collisionRadius)
             THEN /\ placedItems' = Append(placedItems,
                                           [pos |-> treePos, radius |-> collisionRadius])
                  /\ \E sc \in ScatterRands :
                       Returned([id |-> callId, type |-> type,
                                 scatterPos |-> OrnamentScatter(sc), treePos |-> treePos,
                                 weight |-> WeightOf(type), scale |-> scale])
                  /\ loopI' = loopI + 1
                  /\ attempts' = 0
                  /\ lastCall' = [result |-> "item", id |-> callId]
             ELSE /\ attempts' = attempts + 1
                  /\ UNCHANGED <<placedItems, data, placedCount, extraPlaced, gpc,
                                 loopI, lastCall>>
  /\ UNCHANGED <<positions, scat, idCounter, callId, overrideY>>
  /\ UNCHANGED <<appVars, animVars, gestVars>>

\* createItem, retries exhausted: the while loop ends and the call returns null;
\* the caller skips the item and goes on with its loop.
CreateItemExhausted ==
  /\ gpc \in {"mainItem", "fillerItem"}
  /\ ~CanRetry(attempts)
  /\ gpc' = IF gpc = "mainItem" THEN "main" ELSE "filler"
  /\ loopI' = loopI + 1
  /\ lastCall' = [result |-> "null", id |-> callId]
  /\ attempts' = 0
  /\ UNCHANGED <<positions, scat, placedItems, data, idCounter, placedCount, extraPlaced,
                 callId, overrideY>>
  /\ UNCHANGED <<appVars, animVars, gestVars>>

GenInit ==
  /\ gpc = "foliage"
  /\ positions = <<>>
  /\ scat = <<>>
  /\ placedItems = <<>>
  /\ data = [a \in Arrays |-> <<>>]
  /\ idCounter = 0
  /\ loopI = 0
  /\ placedCount = 0
  /\ extraPlaced = 0
  /\ attempts = 0
  /\ callId = 0
  /\ overrideY = Undefined
  /\ lastCall = [result |-> "none", id |-> 0]

GenNext == FoliageStep \/ MainLoop \/ CreateItemAttempt \/ CreateItemExhausted \/ FillerLoop

\* TopStar useMemo: tPos = (0, TREE_HEIGHT / 2 + 2.5, 0),
\* sPos = ((rand - 0.5) * 30, 25 + rand * 8, 12 + rand * 8); the mesh is
\* created at the origin.
TopStarMemo(sr) ==
  [treePos |-> <<0, (TREE_HEIGHT * PosUnit) \div 2 + (5 * PosUnit) \div 2, 0>>,
   scatterPos |-> <<((sr[1] - 50) * 30 * PosUnit) \div 100,
                    25 * PosUnit + (sr[2] * 8 * PosUnit) \div 100,
                    12 * PosUnit + (sr[3] * 8 * PosUnit) \div 100>>,
   position |-> <<0, 0, 0>>]

\* App: the useState initial values.
AppInit ==
  /\ treeState = "SCATTERED"
  /\ photos = <<>>
  /\ photoScale = ScaleUnit
  /\ rotationMod = 0
  /\ uploads = <<>>
  /\ now = 0
  /\ modeWrites = 0

\* The scene objects as constructed: nothing rendered yet.
AnimIdle ==
  /\ posArr = <<>>
  /\ \E sr \in StarScatterRands : star = TopStarMemo(sr)
  /\ framePos = <<>>
  /\ frameScale = <<>>
  /\ planeArgs = <<>>
  /\ uMorphFactor = 0
  /\ groupRot = 0
  /\ worldRot = 0
  /\ frame = 0

\* The camera is off and no GestureController has been mounted.
GestIdle ==
  /\ isCameraEnabled = FALSE
  /\ gc = <<>>
  /\ quiet = 0
  /\ handsLeft = 0
  /\ videoEnd = 0

InitGen == GenInit /\ AppInit /\ AnimIdle /\ GestIdle

SpecGen == InitGen /\ [][GenNext]_vars

\* ------------------------------------------------------ claims: generation
Dist2(p, q) ==
  (p[1] - q[1]) * (p[1] - q[1]) + (p[2] - q[2]) * (p[2] - q[2])
    + (p[3] - q[3]) * (p[3] - q[3])

\* C1: every two distinct entries of placedItems are at least
\* 0.85 * (r1 + r2) apart, r1 and r2 being the radii recorded on acceptance,
\* at every point of the main pass and the bottom-filler pass.
C1_PairwiseSeparation ==
  \A a, b \in 1..Len(placedItems) :
     a # b =>
       LET sum == placedItems[a].radius + placedItems[b].radius
           least == (85 * sum) \div 100
       IN  /\ 100 * least = 85 * sum      \* 0.85 * (r1 + r2), a whole number of units
           /\ Dist2(placedItems[a].pos, placedItems[b].pos) >= least * least

\* C1 witness: both passes are over, and a bottom filler sits next to a
\* main-pass item closer than the sum of their radii (nestled, yet accepted).
C1_Witness ==
  /\ gpc = "done"
  /\ placedCount >= 1
  /\ extraPlaced >= 1
  /\ \E a \in 1..placedCount, b \in (placedCount + 1)..Len(placedItems) :
        LET sum == placedItems[a].radius + placedItems[b].radius
        IN  DistLess(placedItems[a].pos, placedItems[b].pos, sum)

\* C10: a createItem call makes at most 50 attempts; a call returns null only
\* after 50 colliding attempts, and that return adds nothing to placedItems
\* or to any per-category array and hands control back to the running loop,
\* which moves on to its next item; a call whose 50 attempts all collided
\* does nothing but return null.
C10_RetryBudget ==
  [][ /\ attempts' <= 50
      /\ (lastCall' # lastCall /\ lastCall'.result = "null") =>
            /\ attempts = 50
            /\ placedItems' = placedItems
            /\ data' = data
            /\ idCounter' = idCounter
            /\ loopI' = loopI + 1
            /\ gpc' = (IF gpc = "mainItem" THEN "main" ELSE "filler")
      /\ (gpc \in {"mainItem", "fillerItem"} /\ attempts = 50) =>
            lastCall'.result = "null" /\ lastCall'.id = callId
    ]_vars

\* C10 witness: the last call returned null, earlier calls having placed
\* items, and the generation has run to its end.
C10_Witness ==
  /\ gpc = "done"
  /\ lastCall.result = "null"
  /\ Len(placedItems) >= 1
  /\ \E a \in Arrays : Len(data[a]) >= 1

\* All ornaments generated so far, over the six per-category arrays.
Ornaments == UNION {{data[a][k] : k \in 1..Len(data[a])} : a \in Arrays}

\* coneRadius(y) = TREE_RADIUS * (1 - (y + TREE_HEIGHT/2) / TREE_HEIGHT)
ClaimConeRadius(y) ==
  (TREE_RADIUS * ((TREE_HEIGHT * PosUnit) \div 2 - y)) \div (TREE_HEIGHT * PosUnit)

\* lo% of coneRadius(y) <= distance of pos from the axis <= hi% of coneRadius(y)
InBand(pos, lo, hi) ==
  LET cone == ClaimConeRadius(pos[2])
      least == (lo * cone) \div 100
      most == (hi * cone) \div 100
  IN  /\ 100 * least = lo * cone /\ 100 * most = hi * cone   \* whole numbers of units
      /\ least * least <= AxisDist2(pos)
      /\ AxisDist2(pos) <= most * most

Modes == {"SCATTERED", "TREE_SHAPE"}

\* The saturating count of setTreeState calls.
CountWrite(n) == IF n < MaxModeWrites THEN n + 1 ELSE n

\* UI: the "Scattered" button.
ClickScattered ==
  /\ treeState' = "SCATTERED"
  /\ modeWrites' = CountWrite(modeWrites)
  /\ UNCHANGED <<photos, photoScale, rotationMod, uploads, now>>
  /\ UNCHANGED <<genVars, animVars, gestVars>>

\* A button that would write a third value.
ClickTreeShape_Misspelt ==
  /\ treeState' = "TREE"
  /\ modeWrites' = CountWrite(modeWrites)
  /\ UNCHANGED <<photos, photoScale, rotationMod, uploads, now>>
  /\ UNCHANGED <<genVars, animVars, gestVars>>

\* UI: the "Tree Shape" button.
ClickTreeShape ==
  /\ treeState' = "TREE_SHAPE"
  /\ modeWrites' = CountWrite(modeWrites)
  /\ UNCHANGED <<photos, photoScale, rotationMod, uploads, now>>
  /\ UNCHANGED <<genVars, animVars, gestVars>>

\* UI: the zoom button.
toggleZoom ==
  /\ photoScale' = IF 2 * photoScale > 3 * ScaleUnit THEN ScaleUnit ELSE 10 * ScaleUnit
  /\ UNCHANGED <<treeState, photos, rotationMod, uploads, now, modeWrites>>
  /\ UNCHANGED <<genVars, animVars, gestVars>>

\* App.calculateTreePos: y = rand * (h - 4) - (h / 2 - 2), r = rBase * 1.25.
PhotoY(p) == (p * (TREE_HEIGHT - 4) * PosUnit) \div 100 - (TREE_HEIGHT \div 2 - 2) * PosUnit

calculateTreePos(yRand, dir) ==
  LET y == PhotoY(yRand)
  IN  ConePoint(dir, (ConeRadius(y) * 125) \div 100, y)

\* (Math.random() - 0.5) * SCATTER_RADIUS
PhotoScatterCoord(p) == ((p - 50) * SCATTER_RADIUS * PosUnit) \div 100

\* handlePhotoUpload: the file is handed to a FileReader.  The files are
\* numbered in the order of their upload; the data URL of a file stands for it.
handlePhotoUpload ==
  /\ Len(photos) + Len(uploads) < MaxPhotos
  /\ \E size \in ImageSizes :
       uploads' = Append(uploads, [stage |-> "reading", size |-> size,
                                   file |-> Len(photos) + Len(uploads) + 1])
  /\ UNCHANGED <<treeState, photos, photoScale, rotationMod, now, modeWrites>>
  /\ UNCHANGED <<genVars, animVars, gestVars>>

\* reader.onload: the data URL is handed to an Image.
ReaderOnload ==
  /\ \E k \in 1..Len(uploads) :
       /\ uploads[k].stage = "reading"
       /\ uploads' = [uploads EXCEPT ![k].stage = "decoding"]
  /\ UNCHANGED <<treeState, photos, photoScale, rotationMod, now, modeWrites>>
  /\ UNCHANGED <<genVars, animVars, gestVars>>

RemoveAt(seq, k) == SubSeq(seq, 1, k - 1) \o SubSeq(seq, k + 1, Len(seq))

\* n / d rounded to the nearest integer (halves away from zero).
RoundDiv(n, d) ==
  IF n >= 0 THEN (2 * n + d) \div (2 * d) ELSE -((d - 2 * n) \div (2 * d))

\* FrameMesh render: a plane 0.7 wide and 0.7 / aspectRatio high.  The mutant
\* multiplies.
FrameMeshPlane_Multiplied(photo) ==
  LET width == (7 * PosUnit) \div 10
      height == RoundDiv(width * photo.aspectRatio, ScaleUnit)
  IN  <<width, height>>

FrameMeshPlane(photo) ==
  LET width == (7 * PosUnit) \div 10
      height == RoundDiv(width * ScaleUnit, photo.aspectRatio)
  IN  <<width, height>>

\* An onload that would set the list as it was when the upload began (at most
\* file - 1 photos), with the new photo.
ImgOnload_StaleList ==
  \E k \in 1..Len(uploads) :
    /\ uploads[k].stage = "decoding"
    /\ \E t \in now..MaxNow, sc \in PhotoScatterRands, yr \in PhotoYRands,
          dir \in PhotoDirs, spin \in PhotoSpinRands :
         LET aspectRatio == RoundDiv(uploads[k].size[1] * ScaleUnit, uploads[k].size[2])
             newPhoto ==
               [id |-> t,
                url |-> uploads[k].file,
                scatterPos |-> <<PhotoScatterCoord(sc[1]), PhotoScatterCoord(sc[2]),
                                 PhotoScatterCoord(sc[3])>>,
                treePos |-> calculateTreePos(yr, dir),
                rotationSpeed |-> (spin * 2 * PosUnit) \div 100 + PosUnit,
                aspectRatio |-> aspectRatio]
             kept == IF Len(photos) < uploads[k].file - 1 THEN Len(photos)
                     ELSE uploads[k].file - 1
         IN  /\ now' = t
             /\ photos' = Append(SubSeq(photos, 1, kept), newPhoto)
             /\ planeArgs' = Append(SubSeq(planeArgs, 1, kept), FrameMeshPlane(newPhoto))
             /\ framePos' = Append(SubSeq(framePos, 1, kept), <<0, 0, 0>>)
             /\ frameScale' = Append(SubSeq(frameScale, 1, kept), ScaleUnit)
    /\ uploads' = RemoveAt(uploads, k)
    /\ UNCHANGED <<treeState, photoScale, rotationMod, modeWrites>>
    /\ UNCHANGED <<genVars, posArr, star, uMorphFactor, groupRot, worldRot, frame, gestVars>>

\* img.onload: the photo is built, with aspectRatio = img.width / img.height
\* (in 1/ScaleUnit), and appended; its FrameMesh renders and its group mounts
\* at the origin with scale 1.
ImgOnload ==
  \E k \in 1..Len(uploads) :
    /\ uploads[k].stage = "decoding"
    /\ \E t \in now..MaxNow, sc \in PhotoScatterRands, yr \in PhotoYRands,
          dir \in PhotoDirs, spin \in PhotoSpinRands :
         LET aspectRatio == RoundDiv(uploads[k].size[1] * ScaleUnit, uploads[k].size[2])
             newPhoto ==
               [id |-> t,
                url |-> uploads[k].file,
                scatterPos |-> <<PhotoScatterCoord(sc[1]), PhotoScatterCoord(sc[2]),
                                 PhotoScatterCoord(sc[3])>>,
                treePos |-> calculateTreePos(yr, dir),
                rotationSpeed |-> (spin * 2 * PosUnit) \div 100 + PosUnit,
                aspectRatio |-> aspectRatio]
         IN  /\ now' = t
             /\ photos' = Append(photos, newPhoto)
             /\ planeArgs' = Append(planeArgs, FrameMeshPlane(newPhoto))
    /\ uploads' = RemoveAt(uploads, k)
    /\ framePos' = Append(framePos, <<0, 0, 0>>)
    /\ frameScale' = Append(frameScale, ScaleUnit)
    /\ UNCHANGED <<treeState, photoScale, rotationMod, modeWrites>>
    /\ UNCHANGED <<genVars, posArr, star, uMorphFactor, groupRot, worldRot, frame, gestVars>>

\* ------------------------------------------------------------- frame updates

\* THREE.MathUtils.lerp(x, y, t) and one coordinate of Vector3.lerp: x + (y - x) * t,
\* with t in thousandths, rounded to the resolution of the model.
Lerp(x, y, t) == x + RoundDiv((y - x) * t, 1000)

Lerp3(v, w, t) == <<Lerp(v[1], w[1], t), Lerp(v[2], w[2], t), Lerp(v[3], w[3], t)>>

\* Ornaments useFrame, updateMesh for one item: the item record is read, the
\* live position is written.  speed = weight in the tree, weight * 2.5 scattered.
updateMeshItem_WritesTarget(item, pos, isTree) ==
  LET target == IF isTree THEN item.treePos ELSE item.scatterPos
      speed == IF isTree THEN item.weight * 10 ELSE item.weight * 25
      moved == Lerp3(target, pos, speed)
  IN  [item |-> IF isTree THEN [item EXCEPT !.treePos = moved]
                          ELSE [item EXCEPT !.scatterPos = moved],
       pos |-> pos]
updateMeshItem_TreeOnly(item, pos, isTree) ==
  [item |-> item, pos |-> Lerp3(pos, item.treePos, item.weight * 10)]
updateMeshItem_Overshoot(item, pos, isTree) ==
  LET target == IF isTree THEN item.treePos ELSE item.scatterPos
      speed == IF isTree THEN item.weight * 10 ELSE item.weight * 250
  IN  [item |-> item, pos |-> Lerp3(pos, target, speed)]
updateMeshItem(item, pos, isTree) ==
  LET target == IF isTree THEN item.treePos ELSE item.scatterPos
      speed == IF isTree THEN item.weight * 10 ELSE item.weight * 25
  IN  [item |-> item, pos |-> Lerp3(pos, target, speed)]

\* Ornaments useFrame: updateMesh over the six arrays.
OrnamentsUpdate ==
  LET isTree == treeState = "TREE_SHAPE"
      after(a, k) == updateMeshItem(data[a][k], posArr[a][k], isTree)
  IN  /\ data' = [a \in Arrays |-> [k \in 1..Len(data[a]) |-> after(a, k).item]]
      /\ posArr' = [a \in Arrays |-> [k \in 1..Len(data[a]) |-> after(a, k).pos]]

\* TopStar useFrame: the lerp toward the target, then the bob
\* position.y += sin(time * 2.0) * 0.005 in either Mode.
Bob(sine, amplitude) == RoundDiv(sine * amplitude * PosUnit, 1000 * 1000)

TopStarFrame(s, sine) ==
  LET isTree == treeState = "TREE_SHAPE"
      target == IF isTree THEN s.treePos ELSE s.scatterPos
      moved == Lerp3(s.position, target, IF isTree THEN 50 ELSE 15)
  IN  [s EXCEPT !.position = <<moved[1], moved[2] + Bob(sine, 5), moved[3]>>]

\* The inverse of the parent's world matrix applied to a world point, for a
\* parent turned about the y axis by q quarter turns.
InvRot(q, w) ==
  CASE q = 0 -> w
    [] q = 1 -> <<-w[3], w[2], w[1]>>
    [] q = 2 -> <<-w[1], w[2], -w[3]>>
    [] q = 3 -> <<w[3], w[2], -w[1]>>

\* A presentation test that would use the threshold of the zoom button (1.5).
FrameMeshFrame_ButtonThreshold(photo, pos, scale, parentRot, sine) ==
  LET isTree == treeState = "TREE_SHAPE"
      isZooming == 2 * photoScale > 3 * ScaleUnit
      nextScale == Lerp(scale, photoScale, 100)
      offset == (photo.id % 1000) % 10
      targetWorldPos == <<0, 4 * PosUnit, 25 * PosUnit + (offset * 5 * PosUnit) \div 100>>
      targetLocalPos == InvRot(parentRot, targetWorldPos)
      targetPos == IF isTree THEN photo.treePos ELSE photo.scatterPos
      moved == Lerp3(pos, targetPos, IF isTree THEN 80 ELSE 20)
  IN  [photo |-> photo,
       scale |-> nextScale,
       pos |-> IF isZooming THEN Lerp3(pos, targetLocalPos, 200)
               ELSE IF isTree THEN <<moved[1], moved[2] + Bob(sine, 2), moved[3]>>
               ELSE moved]

\* FrameMesh useFrame for one photo.  The scale follows globalScale; above
\* 2.0 the position follows the point pinned in front of the viewer, else
\* treePos or scatterPos, and in the tree the sway is added to y.
FrameMeshFrame(photo, pos, scale, parentRot, sine) ==
  LET isTree == treeState = "TREE_SHAPE"
      isZooming == photoScale > 2 * ScaleUnit
      nextScale == Lerp(scale, photoScale, 100)
      offset == (photo.id % 1000) % 10
      targetWorldPos == <<0, 4 * PosUnit, 25 * PosUnit + (offset * 5 * PosUnit) \div 100>>
      targetLocalPos == InvRot(parentRot, targetWorldPos)
      targetPos == IF isTree THEN photo.treePos ELSE photo.scatterPos
      moved == Lerp3(pos, targetPos, IF isTree THEN 80 ELSE 20)
  IN  [photo |-> photo,
       scale |-> nextScale,
       pos |-> IF isZooming THEN Lerp3(pos, targetLocalPos, 200)
               ELSE IF isTree THEN <<moved[1], moved[2] + Bob(sine, 2), moved[3]>>
               ELSE moved]

\* The FrameMesh callbacks of one frame, in the order of the photos.  The first
\* reads the parent's world matrix of the last render; its getWorldQuaternion
\* call refreshes that matrix, so the later ones read the rotation of this frame.
PhotoFramesUpdate(sine) ==
  LET isZooming == photoScale > 2 * ScaleUnit
      rot(k) == IF k = 1 \/ ~isZooming THEN worldRot ELSE groupRot'
      after(k) == FrameMeshFrame(photos[k], framePos[k], frameScale[k], rot(k), sine)
  IN  /\ photos' = [k \in 1..Len(photos) |-> after(k).photo]
      /\ framePos' = [k \in 1..Len(photos) |-> after(k).pos]
      /\ frameScale' = [k \in 1..Len(photos) |-> after(k).scale]
      /\ planeArgs' = planeArgs

\* TreeGroup useFrame: rotation.y += delta * (baseSpeed + rotationMod), speeds
\* in thousandths; delta is drawn so that the turn is a whole number of
\* quarter turns.
TurnSpeed == (IF treeState = "SCATTERED" THEN 0 ELSE 150) + rotationMod

TreeGroupUpdate ==
  IF TurnSpeed = 0
    THEN groupRot' = groupRot
    ELSE \E q \in QuarterTurns :
           groupRot' = (groupRot + (IF TurnSpeed > 0 THEN q ELSE 4 - q)) % 4

\* Foliage useFrame: the morph factor moves 3% of the way to 1 or 0.
\* A morph factor that would jump to its target.
FoliageUpdate_Snap ==
  uMorphFactor' = IF treeState = "TREE_SHAPE" THEN ScaleUnit ELSE 0

FoliageUpdate ==
  uMorphFactor' = Lerp(uMorphFactor, IF treeState = "TREE_SHAPE" THEN ScaleUnit ELSE 0, 30)

genCtl == <<gpc, positions, scat, placedItems, idCounter, loopI, placedCount,
            extraPlaced, attempts, callId, overrideY, lastCall>>

\* One rendered frame: the useFrame callbacks in the order of their
\* subscription, then the render, which refreshes the world matrices.
Frame ==
  /\ frame < MaxFrames
  /\ frame' = frame + 1
  /\ TreeGroupUpdate
  /\ FoliageUpdate
  /\ OrnamentsUpdate
  /\ \E sine \in StarSines : star' = TopStarFrame(star, sine)
  /\ \E sine \in PhotoSines : PhotoFramesUpdate(sine)
  /\ worldRot' = groupRot'
  /\ UNCHANGED <<treeState, photoScale, rotationMod, uploads, now, modeWrites>>
  /\ UNCHANGED <<genCtl, gestVars>>

\* The Ornaments callback on its own, for as many frames as the scene lives.
OrnamentsFrame ==
  /\ OrnamentsUpdate
  /\ UNCHANGED <<genCtl, appVars, gestVars>>
  /\ UNCHANGED <<star, framePos, frameScale, planeArgs, uMorphFactor, groupRot, worldRot, frame>>

\* The Foliage callback on its own, for as many frames as the scene lives.
FoliageFrame ==
  /\ FoliageUpdate
  /\ UNCHANGED <<genVars, appVars, gestVars>>
  /\ UNCHANGED <<posArr, star, framePos, frameScale, planeArgs, groupRot, worldRot, frame>>

\* ------------------------------------------------------------ the scene

\* One ornament as createItem returns it.
SceneItem(id, type, dir, scatter) ==
  [id |-> id, type |-> type,
   scatterPos |-> OrnamentScatter(scatter),
   treePos |-> TreePoint(Undefined, 10, dir, 0),
   weight |-> WeightOf(type), scale |-> ScaleOf(type, 25)]

FirstItem == SceneItem(0, "sphere", <<5, 0>>, <<60, 36, 50>>)

SceneItems == {FirstItem, SceneItem(0, "box", <<-4, 3>>, <<42, 36, 56>>)}

\* The scene once the generation has run, scaled down to one ornament and one
\* foliage particle; useLayoutEffect has put the ornament at its scatterPos.
SceneBuiltWith(item, particle) ==
  /\ gpc = "done"
  /\ positions = <<FoliagePoint(10, 25, <<-4, 3>>)>>
  /\ scat = <<particle>>
  /\ placedItems = <<[pos |-> item.treePos, radius |-> RadiusOf(item.type, item.scale)]>>
  /\ data = [a \in Arrays |-> IF a = ArrayOf(item.type) THEN <<item>> ELSE <<>>]
  /\ idCounter = 1
  /\ loopI = 0
  /\ placedCount = 1
  /\ extraPlaced = 0
  /\ attempts = 0
  /\ callId = 0
  /\ overrideY = Undefined
  /\ lastCall = [result |-> "item", id |-> 0]

SceneBuilt(item) == SceneBuiltWith(item, FoliageScatter(<<0, -3, 4>>, 729))

\* The places an entity is met in: where it is created and its two targets.
Rests(created, entity) == {created, entity.scatterPos, entity.treePos}

\* A running scene between two frames: either Mode, every entity where it was
\* created or at one of its two targets.  The counts of frames and of Mode
\* writes start here.
InitAnim ==
  /\ \E item \in SceneItems :
       /\ SceneBuilt(item)
       /\ \E pos \in Rests(item.scatterPos, item) :
            posArr = [a \in Arrays |-> IF a = ArrayOf(item.type) THEN <<pos>> ELSE <<>>]
  /\ treeState \in Modes
  /\ photos = <<>>
  /\ photoScale = ScaleUnit
  /\ rotationMod = 0
  /\ uploads = <<>>
  /\ now = 0
  /\ modeWrites = 0
  /\ \E sr \in StarScatterRands :
       \E pos \in Rests(<<0, 0, 0>>, TopStarMemo(sr)) :
         star = [TopStarMemo(sr) EXCEPT !.position = pos]
  /\ framePos = <<>>
  /\ frameScale = <<>>
  /\ planeArgs = <<>>
  /\ uMorphFactor \in {0, ScaleUnit}
  /\ groupRot = 0
  /\ worldRot = 0
  /\ frame = 0
  /\ GestIdle

AnimNext ==
  \/ Frame
  \/ ClickScattered
  \/ ClickTreeShape
  \/ toggleZoom
  \/ handlePhotoUpload
  \/ ReaderOnload
  \/ ImgOnload

SpecAnim == InitAnim /\ [][AnimNext]_vars

\* The ornaments alone, with the Mode buttons, for as long as the scene lives:
\* the render loop calls the Ornaments callback on every frame, so it keeps
\* running while it has anything left to move.
SettleNext == OrnamentsFrame \/ ClickScattered \/ ClickTreeShape

SpecSettle == InitAnim /\ [][SettleNext]_vars /\ WF_vars(OrnamentsFrame)

\* ------------------------------------------------------- claims: animation

\* The position an entity is moving to in the current Mode.
TargetOf(entity) ==
  IF treeState = "TREE_SHAPE" THEN entity.treePos ELSE entity.scatterPos

\* A step that renders one frame.
IsFrame == frame' = frame + 1

StandardMode == photoScale <= 2 * ScaleUnit

OrnamentSlots == {<<a, k>> \in Arrays \X (1..2) : k <= Len(data[a])}

\* pos and next differ in y only, by at most a bob of the given amplitude
\* (in thousandths of a length unit).
BobbedBy(pos, next, amplitude) ==
  /\ next[1] = pos[1]
  /\ next[3] = pos[3]
  /\ Abs(next[2] - pos[2]) <= Bob(1000, amplitude)

OrnamentsStay ==
  \A s \in OrnamentSlots :
    posArr[s[1]][s[2]] = TargetOf(data[s[1]][s[2]])
      => posArr'[s[1]][s[2]] = posArr[s[1]][s[2]]

\* C4 (as amended): in a frame that starts with an entity at its target, an
\* ornament stays where it is, and so does a photo in standard mode while the
\* Mode is SCATTERED; the topper star, and a photo in standard mode while the
\* Mode is TREE_SHAPE, keep x and z and move in y by the bob only (at most
\* 0.005 for the star, 0.002 for a photo).
C4_FixedPoint ==
  [][IsFrame =>
       /\ OrnamentsStay
       /\ \A k \in 1..Len(photos) :
            (StandardMode /\ framePos[k] = TargetOf(photos[k])) =>
               IF treeState = "SCATTERED"
                 THEN framePos'[k] = framePos[k]
                 ELSE BobbedBy(framePos[k], framePos'[k], 2)
       /\ star.position = TargetOf(star) => BobbedBy(star.position, star'.position, 5)]_vars

\* Two frames into a scattered run that began with the ornament, a photo and
\* the star at their targets: the ornament and the photo are still there, the
\* star has bobbed off in y.
C4_Witness ==
  /\ frame >= 2
  /\ treeState = "SCATTERED"
  /\ modeWrites = 0
  /\ StandardMode
  /\ \E s \in OrnamentSlots : posArr[s[1]][s[2]] = data[s[1]][s[2]].scatterPos
  /\ \E k \in 1..Len(photos) : framePos[k] = photos[k].scatterPos
  /\ star.position[3] = star.scatterPos[3]
  /\ star.position[2] # star.scatterPos[2]
  /\ Abs(star.position[2] - star.scatterPos[2]) <= frame * Bob(1000, 5)

\* C4 (as stated): every entity at its target at the start of a frame has the
\* same position after the frame.
C4_AllStay ==
  [][IsFrame =>
       /\ OrnamentsStay
       /\ \A k \in 1..Len(photos) :
            (StandardMode /\ framePos[k] = TargetOf(photos[k])) => framePos'[k] = framePos[k]
       /\ star.position = TargetOf(star) => star'.position = star.position]_vars

\* C9: no step changes the scatterPos or the treePos of an entity that exists:
\* not a frame, not a Mode change, not a zoom change, not an upload.
SameTargets(before, after) ==
  /\ after.scatterPos = before.scatterPos
  /\ after.treePos = before.treePos

C9_TargetsImmutable ==
  [][/\ \A a \in Arrays : \A k \in 1..Len(data[a]) :
          Len(data'[a]) >= k /\ SameTargets(data[a][k], data'[a][k])
     /\ \A k \in 1..Len(photos) :
          Len(photos') >= k /\ SameTargets(photos[k], photos'[k])
     /\ SameTargets(star, star')]_vars

\* Frames have run in the tree and moved the ornament and the first photo,
\* the zoom is on, and a second photo has been uploaded.
C9_Witness ==
  /\ frame >= 2
  /\ modeWrites >= 1
  /\ treeState = "TREE_SHAPE"
  /\ ~StandardMode
  /\ Len(photos) >= 2
  /\ framePos[1] # <<0, 0, 0>>
  /\ \E s \in OrnamentSlots :
       /\ posArr[s[1]][s[2]] # data[s[1]][s[2]].scatterPos
       /\ posArr[s[1]][s[2]] # data[s[1]][s[2]].treePos

\* The resolution of the fixed-point positions under the slowest lerp: a
\* coordinate closer than this to its target no longer moves.
Resolution == PosUnit \div 80

Near(pos, target) == \A c \in 1..3 : Abs(pos[c] - target[c]) <= Resolution

\* C5: once the Mode is held at TREE_SHAPE, every ornament's position ends up
\* at its own treePos and stays there, and likewise at its scatterPos once the
\* Mode is held at SCATTERED, whatever positions and Mode changes came before
\* (at, that is, up to the resolution of the model).
C5_Converges ==
  /\ <>[](treeState = "TREE_SHAPE") =>
       <>[](\A s \in OrnamentSlots : Near(posArr[s[1]][s[2]], data[s[1]][s[2]].treePos))
  /\ <>[](treeState = "SCATTERED") =>
       <>[](\A s \in OrnamentSlots : Near(posArr[s[1]][s[2]], data[s[1]][s[2]].scatterPos))

\* After Mode changes, an ornament that has travelled to its treePos and come
\* to rest within the resolution of it.
C5_Witness ==
  /\ treeState = "TREE_SHAPE"
  /\ modeWrites >= 2
  /\ \E s \in OrnamentSlots :
       /\ Near(posArr[s[1]][s[2]], data[s[1]][s[2]].treePos)
       /\ posArr[s[1]][s[2]] # data[s[1]][s[2]].treePos
       /\ ~Near(data[s[1]][s[2]].scatterPos, data[s[1]][s[2]].treePos)

\* -------------------------------------------------------- GestureController

\* A hand as detectForVideo reports it: the six landmarks the code reads.
Hand(wristX, reach, gap) ==
  LET wrist == <<wristX, 500, 0>>
      tip == <<wristX + reach[1], 500 + reach[2], 0>>
  IN  [wrist |-> wrist,
       thumbTip |-> <<tip[1] + gap[1], tip[2] + gap[2], tip[3] + gap[3]>>,
       indexTip |-> tip, middleTip |-> tip, ringTip |-> tip, pinkyTip |-> tip]

Far == <<0, 120, 50>>

FistHand == Hand(500, <<60, 80>>, Far)
OpenHand == Hand(500, <<300, 400>>, Far)
RelaxedHand == Hand(300, <<180, 240>>, Far)
PinchHand == Hand(500, <<180, 240>>, <<0, 24, 32>>)
LowEdgeHand == Hand(500, <<150, 200>>, Far)            \* average distance exactly 0.25
HighEdgeHand == Hand(500, <<240, 320>>, <<0, 30, 40>>) \* 0.4, and pinch distance 0.05

HandLists ==
  {<<FistHand>>, <<OpenHand>>, <<RelaxedHand>>, <<PinchHand>>, <<LowEdgeHand>>,
   <<HighEdgeHand>>, <<OpenHand, FistHand>>, <<FistHand, OpenHand>>,
   <<RelaxedHand, PinchHand>>}

\* results of detectForVideo: landmarks absent, or a list of hands.
NoLandmarks == [present |-> FALSE, landmarks |-> <<>>]
Detected(hands) == [present |-> TRUE, landmarks |-> hands]

\* Math.hypot of a vector whose length is a whole number of thousandths.
RECURSIVE Root(_, _, _)
Root(sq, lo, hi) ==
  IF lo = hi THEN lo
  ELSE LET mid == (lo + hi + 1) \div 2
       IN  IF mid * mid <= sq THEN Root(sq, mid, hi) ELSE Root(sq, lo, mid - 1)

\* The square roots of the perfect squares, worked out once.
RootOf == [sq \in {len * len : len \in 0..1000} |-> Root(sq, 0, 1000)]

Hypot(v) ==
  LET sq == v[1] * v[1] + v[2] * v[2] + v[3] * v[3]
  IN  IF sq \in DOMAIN RootOf THEN RootOf[sq] ELSE Root(sq, 0, 2 * 1000)

Minus(v, w) == <<v[1] - w[1], v[2] - w[2], v[3] - w[3]>>
Flat(v) == <<v[1], v[2], 0>>

\* updateScale: the smoother moves by lerpSpeed toward 10.0 or 1.0 and snaps
\* to 1.0 when a release brings it within 0.05.
updateScale_SlowRelease(smoother, isPinching) ==
  LET targetScale == IF isPinching THEN 10 * ScaleUnit ELSE ScaleUnit
      lerpSpeed == IF isPinching THEN 400 ELSE 100
      moved == Lerp(smoother, targetScale, lerpSpeed)
  IN  IF ~isPinching /\ 20 * Abs(moved - ScaleUnit) < ScaleUnit THEN ScaleUnit ELSE moved
\* An update without the snap to 1.0.
updateScale_NoSnap(smoother, isPinching) ==
  LET targetScale == IF isPinching THEN 10 * ScaleUnit ELSE ScaleUnit
      lerpSpeed == IF isPinching THEN 100 ELSE 400
  IN  Lerp(smoother, targetScale, lerpSpeed)

updateScale(smoother, isPinching) ==
  LET targetScale == IF isPinching THEN 10 * ScaleUnit ELSE ScaleUnit
      lerpSpeed == IF isPinching THEN 100 ELSE 400
      moved == Lerp(smoother, targetScale, lerpSpeed)
  IN  IF ~isPinching /\ 20 * Abs(moved - ScaleUnit) < ScaleUnit THEN ScaleUnit ELSE moved

\* A pinch distance measured in the image plane only, the depth dropped.
pinchDist_Flat(hand) == Hypot(Flat(Minus(hand.thumbTip, hand.indexTip)))

\* processLandmarks, the loop over the hands: pinchDist in three dimensions,
\* the four fingertip distances in the image plane (here their sum, compared
\* with four times the thresholds).
pinchDist(hand) == Hypot(Minus(hand.thumbTip, hand.indexTip))

SumDist(hand) ==
  Hypot(Flat(Minus(hand.indexTip, hand.wrist)))
  + Hypot(Flat(Minus(hand.middleTip, hand.wrist)))
  + Hypot(Flat(Minus(hand.ringTip, hand.wrist)))
  + Hypot(Flat(Minus(hand.pinkyTip, hand.wrist)))

RECURSIVE SumX(_)
SumX(hands) == IF hands = <<>> THEN 0 ELSE Head(hands).wrist[1] + SumX(Tail(hands))

\* processLandmarks: what one processed frame writes.  stateWrite is the
\* argument of the setTreeState call, or empty when there is none.
processLandmarks_FistFirst(landmarks, smoother) ==
  LET isFist == \E k \in 1..Len(landmarks) : SumDist(landmarks[k]) < 4 * 250
      isOpen == \E k \in 1..Len(landmarks) : SumDist(landmarks[k]) > 4 * 400
      isPinching == \E k \in 1..Len(landmarks) : pinchDist(landmarks[k]) < 50
  IN  IF Len(landmarks) = 0
        THEN [stateWrite |-> <<>>, smoother |-> updateScale(smoother, FALSE), rotation |-> 0]
        ELSE [stateWrite |-> IF isFist THEN <<"TREE_SHAPE">>
                             ELSE IF isOpen THEN <<"SCATTERED">> ELSE <<>>,
              smoother |-> updateScale(smoother, isPinching),
              rotation |-> RoundDiv((500 * Len(landmarks) - SumX(landmarks)) * 5,
                                    Len(landmarks))]
\* An early return that would leave the scale where it is.
processLandmarks_EmptyHeld(landmarks, smoother) ==
  LET isFist == \E k \in 1..Len(landmarks) : SumDist(landmarks[k]) < 4 * 250
      isOpen == \E k \in 1..Len(landmarks) :
                  /\ ~(SumDist(landmarks[k]) < 4 * 250)
                  /\ SumDist(landmarks[k]) > 4 * 400
      isPinching == \E k \in 1..Len(landmarks) : pinchDist(landmarks[k]) < 50
  IN  IF Len(landmarks) = 0
        THEN [stateWrite |-> <<>>, smoother |-> smoother, rotation |-> 0]
        ELSE [stateWrite |-> IF isOpen THEN <<"SCATTERED">>
                             ELSE IF isFist THEN <<"TREE_SHAPE">> ELSE <<>>,
              smoother |-> updateScale(smoother, isPinching),
              rotation |-> RoundDiv((500 * Len(landmarks) - SumX(landmarks)) * 5,
                                    Len(landmarks))]

\* A Mode logic in which the last hand of the list would decide.
processLandmarks_LastHand(landmarks, smoother) ==
  LET last == landmarks[Len(landmarks)]
      isFist == SumDist(last) < 4 * 250
      isOpen == ~(SumDist(last) < 4 * 250) /\ SumDist(last) > 4 * 400
      isPinching == \E k \in 1..Len(landmarks) : pinchDist(landmarks[k]) < 50
  IN  IF Len(landmarks) = 0
        THEN [stateWrite |-> <<>>, smoother |-> updateScale(smoother, FALSE), rotation |-> 0]
        ELSE [stateWrite |-> IF isOpen THEN <<"SCATTERED">>
                             ELSE IF isFist THEN <<"TREE_SHAPE">> ELSE <<>>,
              smoother |-> updateScale(smoother, isPinching),
              rotation |-> RoundDiv((500 * Len(landmarks) - SumX(landmarks)) * 5,
                                    Len(landmarks))]

processLandmarks(landmarks, smoother) ==
  LET isFist == \E k \in 1..Len(landmarks) : SumDist(landmarks[k]) < 4 * 250
      isOpen == \E k \in 1..Len(landmarks) :
                  /\ ~(SumDist(landmarks[k]) < 4 * 250)
                  /\ SumDist(landmarks[k]) > 4 * 400
      isPinching == \E k \in 1..Len(landmarks) : pinchDist(landmarks[k]) < 50
  IN  IF Len(landmarks) = 0
        THEN [stateWrite |-> <<>>, smoother |-> updateScale(smoother, FALSE), rotation |-> 0]
        ELSE [stateWrite |-> IF isOpen THEN <<"SCATTERED">>
                             ELSE IF isFist THEN <<"TREE_SHAPE">> ELSE <<>>,
              smoother |-> updateScale(smoother, isPinching),
              rotation |-> RoundDiv((500 * Len(landmarks) - SumX(landmarks)) * 5,
                                    Len(landmarks))]

\* predict, the part under "currentTime changed": detection, then either
\* processLandmarks or the reset for absent landmarks.
Processed(results, smoother) ==
  IF results.present
    THEN processLandmarks(results.landmarks, smoother)
    ELSE [stateWrite |-> <<>>, smoother |-> updateScale(smoother, FALSE), rotation |-> 0]

\* A GestureController as its effect starts: setup() has run up to its first await.
NewController ==
  [pc |-> "vision", mounted |-> TRUE, logged |-> FALSE,
   landmarker |-> FALSE, videoElement |-> FALSE, videoRef |-> FALSE,
   attached |-> FALSE, trackLive |-> FALSE, listening |-> FALSE,
   animationFrameId |-> FALSE, rafPending |-> FALSE,
   lastVideoTime |-> -1, pinchSmoother |-> ScaleUnit, results |-> NoLandmarks]

AppUntouched == UNCHANGED <<treeState, photos, photoScale, rotationMod, uploads, now, modeWrites>>

\* UI: the camera button while the camera is off.  GestureController mounts
\* and its effect calls setup().
EnableCamera ==
  /\ ~isCameraEnabled
  /\ Len(gc) < MaxMounts
  /\ isCameraEnabled' = TRUE
  /\ gc' = Append(gc, NewController)
  /\ AppUntouched
  /\ UNCHANGED <<genVars, animVars, quiet, handsLeft, videoEnd>>

\* The effect's cleanup: it acts on the closure variables as they are now.
Cleanup(c) ==
  [c EXCEPT !.mounted = FALSE,
            !.rafPending = IF c.animationFrameId THEN FALSE ELSE @,
            !.attached = IF c.videoElement THEN FALSE ELSE @,
            !.trackLive = IF c.videoElement THEN FALSE ELSE @]

\* A cleanup that would put the signals back to neutral.
DisableCamera_Resets ==
  /\ isCameraEnabled
  /\ isCameraEnabled' = FALSE
  /\ gc' = [gc EXCEPT ![Len(gc)] = Cleanup(@)]
  /\ photoScale' = ScaleUnit
  /\ rotationMod' = 0
  /\ UNCHANGED <<treeState, photos, uploads, now, modeWrites>>
  /\ UNCHANGED <<genVars, animVars, quiet, handsLeft, videoEnd>>

\* UI: the camera button while the camera is on.  GestureController unmounts
\* and the cleanup of its effect runs.
DisableCamera ==
  /\ isCameraEnabled
  /\ isCameraEnabled' = FALSE
  /\ gc' = [gc EXCEPT ![Len(gc)] = Cleanup(@)]
  /\ AppUntouched
  /\ UNCHANGED <<genVars, animVars, quiet, handsLeft, videoEnd>>

\* setup: FilesetResolver.forVisionTasks resolves.
SetupVision ==
  /\ \E i \in 1..Len(gc) :
       /\ gc[i].pc = "vision"
       /\ gc' = [gc EXCEPT ![i].pc = "landmarker"]
  /\ AppUntouched
  /\ UNCHANGED <<genVars, animVars, isCameraEnabled, quiet, handsLeft, videoEnd>>

\* setup: HandLandmarker.createFromOptions resolves.
SetupLandmarker ==
  /\ \E i \in 1..Len(gc) :
       /\ gc[i].pc = "landmarker"
       /\ gc' = [gc EXCEPT ![i].pc = "camera", ![i].landmarker = TRUE]
  /\ AppUntouched
  /\ UNCHANGED <<genVars, animVars, isCameraEnabled, quiet, handsLeft, videoEnd>>

\* setup: getUserMedia resolves; the video element is created, given the
\* stream, appended to the body and listened to, and videoRef is set.
SetupCamera ==
  /\ \E i \in 1..Len(gc) :
       /\ gc[i].pc = "camera"
       /\ gc' = [gc EXCEPT ![i].pc = "done", ![i].trackLive = TRUE,
                           ![i].videoElement = TRUE, ![i].attached = TRUE,
                           ![i].listening = TRUE, ![i].videoRef = TRUE]
  /\ AppUntouched
  /\ UNCHANGED <<genVars, animVars, isCameraEnabled, quiet, handsLeft, videoEnd>>

\* A catch that would go on to poll: it logs and calls predict, which
\* schedules itself.
SetupFails_Polls ==
  /\ \E i \in 1..Len(gc) :
       /\ gc[i].pc \in {"vision", "landmarker", "camera"}
       /\ gc' = [gc EXCEPT ![i].pc = "failed", ![i].logged = TRUE,
                           ![i].animationFrameId = TRUE, ![i].rafPending = TRUE]
  /\ AppUntouched
  /\ UNCHANGED <<genVars, animVars, isCameraEnabled, quiet, handsLeft, videoEnd>>

\* setup: the awaited step rejects; the catch logs the error.
SetupFails ==
  /\ \E i \in 1..Len(gc) :
       /\ gc[i].pc \in {"vision", "landmarker", "camera"}
       /\ gc' = [gc EXCEPT ![i].pc = "failed", ![i].logged = TRUE]
  /\ AppUntouched
  /\ UNCHANGED <<genVars, animVars, isCameraEnabled, quiet, handsLeft, videoEnd>>

\* A predict that would run the detection on every call, new frame or not.
predict_EveryCall(c, currentTime, results) ==
  IF ~c.landmarker \/ ~c.videoRef
    THEN [ctl |-> c, processed |-> FALSE, out |-> Processed(NoLandmarks, c.pinchSmoother)]
    ELSE LET out == Processed(results, c.pinchSmoother)
         IN  [ctl |-> [c EXCEPT !.lastVideoTime = currentTime,
                                !.pinchSmoother = out.smoother,
                                !.results = results,
                                !.animationFrameId = TRUE,
                                !.rafPending = TRUE],
              processed |-> TRUE, out |-> out]

\* A predict whose update would start from the scale signal (the prop) rather
\* than from the smoother ref.
predict_FromSignal(c, currentTime, results) ==
  IF ~c.landmarker \/ ~c.videoRef
    THEN [ctl |-> c, processed |-> FALSE, out |-> Processed(NoLandmarks, c.pinchSmoother)]
    ELSE IF c.lastVideoTime # currentTime
      THEN LET out == Processed(results, photoScale)
           IN  [ctl |-> [c EXCEPT !.lastVideoTime = currentTime,
                                  !.pinchSmoother = out.smoother,
                                  !.results = results,
                                  !.animationFrameId = TRUE,
                                  !.rafPending = TRUE],
                processed |-> TRUE, out |-> out]
      ELSE [ctl |-> [c EXCEPT !.animationFrameId = TRUE, !.rafPending = TRUE],
            processed |-> FALSE, out |-> Processed(NoLandmarks, c.pinchSmoother)]

\* predict on controller c, for the video time and the detection results it
\* meets: the controller afterwards, whether a frame was processed, and what
\* processing it wrote.
predict(c, currentTime, results) ==
  IF ~c.landmarker \/ ~c.videoRef
    THEN [ctl |-> c, processed |-> FALSE, out |-> Processed(NoLandmarks, c.pinchSmoother)]
    ELSE IF c.lastVideoTime # currentTime
      THEN LET out == Processed(results, c.pinchSmoother)
           IN  [ctl |-> [c EXCEPT !.lastVideoTime = currentTime,
                                  !.pinchSmoother = out.smoother,
                                  !.results = results,
                                  !.animationFrameId = TRUE,
                                  !.rafPending = TRUE],
                processed |-> TRUE, out |-> out]
      ELSE [ctl |-> [c EXCEPT !.animationFrameId = TRUE, !.rafPending = TRUE],
            processed |-> FALSE, out |-> Processed(NoLandmarks, c.pinchSmoother)]

\* videoRef.current.currentTime as predict can read it: the time of the last
\* frame seen, or of the next one while the camera delivers frames.
Times(c) ==
  {IF c.lastVideoTime < 0 THEN 0 ELSE c.lastVideoTime}
    \cup (IF c.trackLive /\ c.lastVideoTime < videoEnd THEN {c.lastVideoTime + 1} ELSE {})

\* What detectForVideo can return for a new frame.
Detections ==
  {NoLandmarks, Detected(<<>>)}
    \cup (IF handsLeft > 0 THEN {Detected(hands) : hands \in HandLists} ELSE {})

\* One call of predict on controller i, which stands at c when predict starts.
PredictCall(i, c) ==
  \E currentTime \in Times(c) :
    \E results \in (IF c.lastVideoTime # currentTime THEN Detections ELSE {NoLandmarks}) :
      LET r == predict(c, currentTime, results)
          hands == results.present /\ results.landmarks # <<>>
      IN  /\ gc' = [gc EXCEPT ![i] = r.ctl]
          /\ IF r.processed
               THEN /\ treeState' = IF r.out.stateWrite # <<>> THEN r.out.stateWrite[1]
                                    ELSE treeState
                    /\ modeWrites' = IF r.out.stateWrite # <<>> THEN CountWrite(modeWrites)
                                     ELSE modeWrites
                    /\ photoScale' = r.out.smoother
                    /\ rotationMod' = r.out.rotation
                    /\ quiet' = IF hands THEN 0
                                ELSE IF quiet < QuietFrames THEN quiet + 1 ELSE quiet
                    /\ handsLeft' = IF hands THEN handsLeft - 1 ELSE handsLeft
               ELSE UNCHANGED <<treeState, modeWrites, photoScale, rotationMod, quiet,
                                handsLeft>>
          /\ UNCHANGED <<photos, uploads, now>>
          /\ UNCHANGED <<genVars, animVars, isCameraEnabled, videoEnd>>

\* The video element fires loadeddata, which takes a frame from a live track:
\* the listener runs predict.
LoadedData ==
  \E i \in 1..Len(gc) :
    /\ gc[i].listening
    /\ gc[i].trackLive
    /\ PredictCall(i, [gc[i] EXCEPT !.listening = FALSE])

\* The browser runs a scheduled animation-frame callback: predict.
AnimationFrame ==
  \E i \in 1..Len(gc) :
    /\ gc[i].rafPending
    /\ PredictCall(i, [gc[i] EXCEPT !.rafPending = FALSE])

\* The scene as mounted, before its first frame.
SceneMounted(item) ==
  /\ posArr = [a \in Arrays |-> IF a = ArrayOf(item.type) THEN <<item.scatterPos>> ELSE <<>>]
  /\ \E sr \in StarScatterRands : star = TopStarMemo(sr)
  /\ framePos = <<>>
  /\ frameScale = <<>>
  /\ planeArgs = <<>>
  /\ uMorphFactor = 0
  /\ groupRot = 0
  /\ worldRot = 0
  /\ frame = 0

\* The app as loaded, in front of a camera that will deliver a short feed.
InitGesture ==
  /\ SceneBuilt(FirstItem)
  /\ SceneMounted(FirstItem)
  /\ AppInit
  /\ isCameraEnabled = FALSE
  /\ gc = <<>>
  /\ quiet = 0
  /\ handsLeft = MaxHandFrames
  /\ videoEnd = ShortFeed

GestureNext ==
  \/ EnableCamera
  \/ DisableCamera
  \/ SetupVision
  \/ SetupLandmarker
  \/ SetupCamera
  \/ SetupFails
  \/ LoadedData
  \/ AnimationFrame

SpecGesture == InitGesture /\ [][GestureNext]_vars

\* The whole app after the scene is built: the UI handlers and the gesture
\* controller side by side.
AppNext ==
  \/ ClickScattered
  \/ ClickTreeShape
  \/ toggleZoom
  \/ handlePhotoUpload
  \/ ReaderOnload
  \/ ImgOnload
  \/ EnableCamera
  \/ DisableCamera
  \/ SetupVision
  \/ SetupLandmarker
  \/ SetupCamera
  \/ SetupFails
  \/ LoadedData
  \/ AnimationFrame

\* The app as loaded, in front of a camera that delivers a few frames only.
InitApp ==
  /\ SceneBuilt(FirstItem)
  /\ SceneMounted(FirstItem)
  /\ AppInit
  /\ isCameraEnabled = FALSE
  /\ gc = <<>>
  /\ quiet = 0
  /\ handsLeft = AppHandFrames
  /\ videoEnd = AppFeed

SpecApp == InitApp /\ [][AppNext]_vars

\* The uploads in flight while the scene is rendered and zoomed.
UploadNext ==
  \/ handlePhotoUpload
  \/ ReaderOnload
  \/ ImgOnload
  \/ toggleZoom
  \/ Frame

SpecUpload == InitApp /\ [][UploadNext]_vars

\* A scene whose ornament and foliage particle were scattered by draws from
\* all over their range; photos are uploaded to it and it is rendered.
InitScatter ==
  /\ \E sc \in WideScatterRands, dir \in WideSphereDirs, cubeRand \in WideCubeRands :
       LET item == SceneItem(0, "sphere", <<5, 0>>, sc)
       IN  /\ SceneBuiltWith(item, FoliageScatter(dir, cubeRand))
           /\ SceneMounted(item)
  /\ AppInit
  /\ isCameraEnabled = FALSE
  /\ gc = <<>>
  /\ quiet = 0
  /\ handsLeft = 0
  /\ videoEnd = 0

SpecScatter == InitScatter /\ [][UploadNext]_vars

\* The foliage under the Mode buttons.
MorphNext ==
  \/ ClickScattered
  \/ ClickTreeShape
  \/ FoliageFrame

SpecMorph == InitApp /\ [][MorphNext]_vars

\* The scale signal as a gesture session can leave it: 1.0 untouched, 1.9 and
\* 2.71 after one and two pinching frames.
PinchedScales == {ScaleUnit, (19 * ScaleUnit) \div 10, (271 * ScaleUnit) \div 100}

PinchFrames(scale) ==
  CASE scale = ScaleUnit -> 0
    [] scale = (19 * ScaleUnit) \div 10 -> 1
    [] OTHER -> 2

\* The app after the camera was on for a few pinching frames and was switched
\* off again: the scale signal is where the controller left it.
InitPhotos ==
  /\ SceneBuilt(FirstItem)
  /\ SceneMounted(FirstItem)
  /\ treeState = "SCATTERED"
  /\ photos = <<>>
  /\ rotationMod = 0
  /\ uploads = <<>>
  /\ now = 0
  /\ modeWrites = 0
  /\ isCameraEnabled = FALSE
  /\ \E scale \in PinchedScales :
       /\ photoScale = scale
       /\ videoEnd = PinchFrames(scale)
       /\ gc = <<Cleanup([NewController EXCEPT
                            !.pc = "done", !.landmarker = TRUE,
                            !.videoElement = TRUE, !.videoRef = TRUE,
                            !.attached = TRUE, !.trackLive = TRUE,
                            !.animationFrameId = TRUE, !.rafPending = TRUE,
                            !.lastVideoTime = PinchFrames(scale),
                            !.pinchSmoother = scale,
                            !.results = IF scale = ScaleUnit THEN Detected(<<>>)
                                        ELSE Detected(<<PinchHand>>)])>>
  /\ quiet = 0
  /\ handsLeft = 0

\* The photos under the Mode buttons and the zoom button, rendered.
PhotosNext ==
  \/ Frame
  \/ ClickScattered
  \/ ClickTreeShape
  \/ toggleZoom
  \/ handlePhotoUpload
  \/ ReaderOnload
  \/ ImgOnload

SpecPhotos == InitPhotos /\ [][PhotosNext]_vars

\* The app with the camera off after an earlier camera session that has ended:
\* Mode, scale signal and rotation bias are where that session left them.
InitRemount ==
  /\ SceneBuilt(FirstItem)
  /\ SceneMounted(FirstItem)
  /\ treeState \in Modes
  /\ photos = <<>>
  /\ photoScale \in PinchedScales
  /\ rotationMod \in RotSamples
  /\ uploads = <<>>
  /\ now = 0
  /\ modeWrites = 0
  /\ isCameraEnabled = FALSE
  /\ gc = <<>>
  /\ quiet = 0
  /\ handsLeft = AppHandFrames
  /\ videoEnd = AppFeed

SpecRemount == InitRemount /\ [][GestureNext]_vars

\* A controller whose setup has finished and whose loop is running, met with
\* its smoother at any of the sampled scales, any sampled rotation bias and
\* either Mode, in front of a camera that goes on for longer than the counted
\* run of frames.
InitScale ==
  /\ SceneBuilt(FirstItem)
  /\ SceneMounted(FirstItem)
  /\ treeState \in Modes
  /\ photos = <<>>
  /\ rotationMod \in RotSamples
  /\ uploads = <<>>
  /\ now = 0
  /\ modeWrites = 0
  /\ isCameraEnabled = TRUE
  /\ \E scale \in ScaleSamples :
       /\ photoScale = scale
       /\ gc = <<[NewController EXCEPT !.pc = "done", !.landmarker = TRUE,
                                       !.videoElement = TRUE, !.videoRef = TRUE,
                                       !.attached = TRUE, !.trackLive = TRUE,
                                       !.animationFrameId = TRUE, !.rafPending = TRUE,
                                       !.lastVideoTime = 0, !.pinchSmoother = scale]>>
  /\ quiet = 0
  /\ handsLeft = 1
  /\ videoEnd = QuietFrames + 2

ScaleNext == AnimationFrame

SpecScale == InitScale /\ [][ScaleNext]_vars

\* ---------------------------------------------------------- claims: gestures

\* C3 (as stated): once the cleanup of a controller has run and its setup has
\* come to its end (loadeddata included), its camera track is stopped, its
\* video element is detached and no predict call is scheduled.
C3_TornDown ==
  \A i \in 1..Len(gc) :
    (~gc[i].mounted /\ gc[i].pc \in {"done", "failed"} /\ ~gc[i].listening) =>
       (~gc[i].trackLive /\ ~gc[i].attached /\ ~gc[i].rafPending)

\* The processed frames of a step: the controllers whose lastVideoTime moved.
ProcessedBy(i) == i <= Len(gc') /\ gc'[i].lastVideoTime # gc[i].lastVideoTime

ShowsHands(c) == c.results.present /\ c.results.landmarks # <<>>

SomeHand(c, test(_)) == \E k \in 1..Len(c.results.landmarks) : test(c.results.landmarks[k])

IsOpenHand(hand) == SumDist(hand) > 4 * 400
IsFistHand(hand) == SumDist(hand) < 4 * 250
IsPinchHand(hand) == pinchDist(hand) < 50

Counted(n) == IF n < MaxModeWrites THEN n + 1 ELSE n

\* C8: a processed frame with at least one hand sets the Mode to SCATTERED if
\* some hand's average fingertip distance is above 0.4, else to TREE_SHAPE if
\* some hand's is below 0.25, and else writes no Mode and leaves it as it was.
C8_ModeFromHands ==
  [][\A i \in 1..Len(gc) :
       (ProcessedBy(i) /\ ShowsHands(gc'[i])) =>
          IF SomeHand(gc'[i], IsOpenHand)
            THEN treeState' = "SCATTERED" /\ modeWrites' = Counted(modeWrites)
            ELSE IF SomeHand(gc'[i], IsFistHand)
              THEN treeState' = "TREE_SHAPE" /\ modeWrites' = Counted(modeWrites)
              ELSE treeState' = treeState /\ modeWrites' = modeWrites]_vars

\* A fist has set TREE_SHAPE, and a later frame with a hand on the 0.4 edge
\* has left it alone.
C8_Witness ==
  /\ Len(gc) >= 1
  /\ gc[1].results = Detected(<<HighEdgeHand>>)
  /\ treeState = "TREE_SHAPE"
  /\ modeWrites = 1

C6_Neutral ==
  quiet >= QuietFrames =>
    /\ 20 * Abs(photoScale - ScaleUnit) <= ScaleUnit
    /\ rotationMod = 0

\* 30 frames without a hand have been processed after a frame with one.
C6_Witness ==
  /\ quiet >= QuietFrames
  /\ handsLeft = 0
  /\ photoScale = ScaleUnit


\* ---------------------------------------------------------------- app claims
\* Controller i's setup has ended in the catch.
Failed(i) == gc[i].pc = "failed"

\* Nothing of controller c polls: no listener, no scheduled callback, no
\* frame ever read.
NoLoop(c) == ~c.listening /\ ~c.rafPending /\ ~c.animationFrameId /\ c.lastVideoTime = -1

\* The UI handlers can run.
UIWorks ==
  /\ ENABLED ClickScattered
  /\ ENABLED ClickTreeShape
  /\ ENABLED toggleZoom
  /\ Len(photos) + Len(uploads) < MaxPhotos => ENABLED handlePhotoUpload

\* A controller mounted later than i has processed a video frame.
OtherProcessed(i) ==
  \E j \in (1..Len(gc)) \ {i} : gc'[j].lastVideoTime # gc[j].lastVideoTime

\* One step seen from a failing or failed setup.
FailureStep ==
  \A i \in 1..Len(gc) :
    /\ ~Failed(i) /\ gc'[i].pc = "failed" =>
         /\ gc'[i].logged
         /\ NoLoop(gc'[i])
         /\ UNCHANGED <<treeState, photoScale, rotationMod, photos>>
    /\ Failed(i) =>
         /\ gc'[i].pc = "failed"
         /\ NoLoop(gc'[i])
         /\ rotationMod' # rotationMod => OtherProcessed(i)
         /\ treeState' # treeState => ClickScattered \/ ClickTreeShape \/ OtherProcessed(i)
         /\ photoScale' # photoScale => toggleZoom \/ OtherProcessed(i)
         /\ photos' # photos => ImgOnload

\* C11: when a step of the gesture controller's setup fails (vision files,
\* landmarker or camera), the failure is logged, the controller never polls,
\* the failing step and the failed controller leave Mode, scale, rotation bias
\* and photos alone (afterwards only the UI handlers change them, or a
\* controller mounted by a later click of the camera button), and the Mode
\* buttons, the zoom toggle and the upload can still run.
C11_FailureContained ==
  /\ []((\E i \in 1..Len(gc) : Failed(i)) => UIWorks)
  /\ [][FailureStep]_vars

\* The camera permission was refused after the landmarker had been created,
\* with the tree formed, the photos zoomed and a photo uploaded.
C11_Witness ==
  /\ Len(gc) = 1
  /\ Failed(1)
  /\ gc[1].logged
  /\ gc[1].landmarker
  /\ treeState = "TREE_SHAPE"
  /\ photoScale = 10 * ScaleUnit
  /\ Len(photos) >= 1

\* The last frame controller c processed came with an empty list of hands.
EmptyList(c) == c.results.present /\ c.results.landmarks = <<>>

\* C12: a processed frame whose hand list is empty writes no Mode, sets the
\* rotation bias to 0 and moves the scale toward 1.0 by four tenths of its
\* gap, all the way when that brings it within 0.05 (up to half a unit of the
\* fixed-point scale).
C12_EmptyIsNoGesture ==
  [][\A i \in 1..Len(gc) :
       (ProcessedBy(i) /\ EmptyList(gc'[i])) =>
          LET before == gc[i].pinchSmoother
              after == gc'[i].pinchSmoother
          IN  /\ treeState' = treeState
              /\ modeWrites' = modeWrites
              /\ rotationMod' = 0
              /\ photoScale' = after
              /\ ScaleUnit <= after /\ after <= before
              /\ \/ after = ScaleUnit /\ 12 * (before - ScaleUnit) <= ScaleUnit + 12
                 \/ /\ 20 * (after - ScaleUnit) >= ScaleUnit
                    /\ Abs(10 * (before - after) - 4 * (before - ScaleUnit)) <= 5]_vars

\* An empty list has been processed after a frame with a hand, and the scale
\* is still above 4.0.
C12_Witness ==
  /\ Len(gc) >= 1
  /\ EmptyList(gc[1])
  /\ handsLeft = 0
  /\ rotationMod = 0
  /\ photoScale > 4 * ScaleUnit

\* C12 as stated: a processed frame whose hand list is empty writes no Mode
\* and leaves the rotation bias at 0 and the scale at 1.0.
C12_ResetsAtOnce ==
  [][\A i \in 1..Len(gc) :
       (ProcessedBy(i) /\ EmptyList(gc'[i])) =>
          /\ treeState' = treeState
          /\ modeWrites' = modeWrites
          /\ rotationMod' = 0
          /\ photoScale' = ScaleUnit]_vars

\* C13: when an image of width w and height h is decoded, the photo appended
\* stores aspectRatio = w / h (to half a unit of the fixed-point ratio) and its
\* plane is rendered 0.7 wide with width / height = w / h (the height to one
\* unit of length).
C13_AspectKept ==
  [][Len(photos') > Len(photos) =>
       \E k \in 1..Len(uploads) :
         LET w == uploads[k].size[1]
             h == uploads[k].size[2]
             photo == photos'[Len(photos')]
             plane == planeArgs'[Len(photos')]
         IN  /\ uploads[k].stage = "decoding"
             /\ uploads' = RemoveAt(uploads, k)
             /\ h > 0
             /\ 2 * Abs(photo.aspectRatio * h - w * ScaleUnit) <= h
             /\ Len(planeArgs') = Len(photos')
             /\ 10 * plane[1] = 7 * PosUnit
             /\ Abs(plane[1] * h - plane[2] * w) <= w]_vars

\* A 16:9 image has been decoded: the plane is 0.7 by 0.39375 (to one unit of
\* length).
C13_Witness ==
  /\ Len(photos) >= 1
  /\ Len(planeArgs) = Len(photos)
  /\ Abs(photos[1].aspectRatio * 9 - 16 * ScaleUnit) <= 9
  /\ Abs(planeArgs[1][2] * 16 - 7 * 9 * (PosUnit \div 10)) <= 16

\* C14: the Mode is SCATTERED or TREE_SHAPE in every reachable state, and it is
\* SCATTERED as long as nothing has written it.
C14_TwoModes ==
  /\ treeState \in Modes
  /\ modeWrites = 0 => treeState = "SCATTERED"

\* Both kinds of writer have written: a button and then a fist seen by the
\* classifier.
C14_Witness ==
  /\ Len(gc) >= 1
  /\ gc[1].results = Detected(<<FistHand>>)
  /\ modeWrites = 2
  /\ treeState = "TREE_SHAPE"

\* The morph factor the current Mode asks for.
targetFactor == IF treeState = "TREE_SHAPE" THEN ScaleUnit ELSE 0

\* One step seen from the foliage.
MorphStep ==
  /\ (treeState' # treeState \/ modeWrites' # modeWrites) => uMorphFactor' = uMorphFactor
  /\ uMorphFactor' # uMorphFactor =>
       /\ Abs(1000 * (uMorphFactor' - uMorphFactor) - 30 * (targetFactor - uMorphFactor)) <= 500
       /\ Abs(targetFactor - uMorphFactor') < Abs(targetFactor - uMorphFactor)

\* C15: the foliage morph factor is within [0, 1] in every reachable state; a
\* step that changes the Mode leaves it as it is, and a step that changes it
\* is a frame that moves it by 3% of its gap to the Mode's target (to half a
\* unit of the fixed-point factor), toward the target.
C15_MorphBounded ==
  /\ [](0 <= uMorphFactor /\ uMorphFactor <= ScaleUnit)
  /\ [][MorphStep]_vars

\* Two frames toward the tree (0.03, 0.0591), a toggle, and one frame back.
C15_Witness ==
  /\ treeState = "SCATTERED"
  /\ modeWrites = 2
  /\ uMorphFactor = Lerp(Lerp(Lerp(0, ScaleUnit, 30), ScaleUnit, 30), 0, 30)
  /\ uMorphFactor > 0

\* One step seen from the photo list and the uploads in flight.
PhotosStep ==
  /\ Len(photos') >= Len(photos)
  /\ Len(photos') <= Len(photos) + 1
  /\ \A k \in 1..Len(photos) : photos'[k] = photos[k]
  /\ Len(photos') = Len(photos) + 1 =>
       \E k \in 1..Len(uploads) :
         /\ uploads[k].stage = "decoding"
         /\ uploads' = RemoveAt(uploads, k)
         /\ photos'[Len(photos')].url = uploads[k].file
  /\ Len(photos') = Len(photos) =>
       /\ Len(uploads') >= Len(uploads)
       /\ \A k \in 1..Len(uploads) : uploads'[k].file = uploads[k].file

\* The files uploaded so far, each once: as a photo or still in flight.
Files(seq, of(_)) == {of(seq[k]) : k \in 1..Len(seq)}
UrlOf(photo) == photo.url
FileOf(upload) == upload.file

\* C16: a step never removes, reorders or modifies a photo; it appends at most
\* one, and then it is the photo of an upload whose decode has just completed;
\* an upload leaves the uploads in flight only by appending its photo.  So at
\* any time every file uploaded is in the list once or still in flight once.
C16_AppendOnly ==
  /\ [][PhotosStep]_vars
  /\ [](/\ Files(photos, UrlOf) \cup Files(uploads, FileOf)
            = 1..(Len(photos) + Len(uploads))
        /\ Cardinality(Files(photos, UrlOf)) = Len(photos))

\* Two uploads were in flight together and the second was decoded first: both
\* photos are in the list, in the order of completion, after a frame.
C16_Witness ==
  /\ Len(photos) = 2
  /\ photos[1].url = 2
  /\ photos[2].url = 1
  /\ uploads = <<>>
  /\ frame >= 1

\* pos is strictly inside the sphere of radius SCATTER_RADIUS about the origin
\* (coordinates counted in fortieths of a unit, which the sampled positions
\* are whole numbers of).
InSphere(pos) ==
  LET x == pos[1] \div 50
      y == pos[2] \div 50
      z == pos[3] \div 50
      radius == (SCATTER_RADIUS * PosUnit) \div 50
  IN  x * x + y * y + z * z < radius * radius

\* C17: every scatter position generated, of a foliage particle, an ornament
\* or a photo, is inside the sphere of radius SCATTER_RADIUS about the origin.
C17_ScatterInSphere ==
  /\ \A k \in 1..Len(scat) : InSphere(scat[k])
  /\ \A item \in Ornaments : InSphere(item.scatterPos)
  /\ \A k \in 1..Len(photos) : InSphere(photos[k].scatterPos)

\* ------------------------------------------------- claims: the two passes
\* createItem calls the running loop has made, the one in progress included.
CallsMade == loopI + (IF gpc \in {"mainItem", "fillerItem"} THEN 1 ELSE 0)

InFillerPass == gpc \in {"filler", "fillerItem", "done"}

\* The entries of placedItems the filler pass added, and the item pushed to
\* bellData for entry j.
FillerSlots == (placedCount + 1)..Len(placedItems)
FillerItem(j) == data["bellData"][Len(data["bellData"]) - Len(placedItems) + j]

Apart(a, b) ==
  LET sum == placedItems[a].radius + placedItems[b].radius
      least == (85 * sum) \div 100
  IN  Dist2(placedItems[a].pos, placedItems[b].pos) >= least * least

\* C18: the filler pass starts when the main pass is over and adds to the same
\* placedItems; it makes at most 1.5 * extraCount createItem calls (180 for
\* 120) and places at most extraCount items; each item it places is a bell
\* whose tree height is in [-9, -5) and which is at least 0.85 * (r1 + r2)
\* from every entry placed before it, by the main pass or by the filler pass.
C18_FillerPass ==
  /\ ~InFillerPass => extraPlaced = 0
  /\ Len(placedItems) = placedCount + extraPlaced
  /\ extraPlaced <= ExtraCount
  /\ InFillerPass =>
       /\ 2 * CallsMade <= 3 * ExtraCount + 1
       /\ extraPlaced <= CallsMade
       /\ Len(data["bellData"]) >= extraPlaced
  /\ \A j \in FillerSlots :
       /\ FillerItem(j).type = "bell"
       /\ FillerItem(j).treePos = placedItems[j].pos
       /\ FillerItem(j).id >= placedCount
       /\ -9 * PosUnit <= placedItems[j].pos[2]
       /\ placedItems[j].pos[2] < -5 * PosUnit
       /\ \A i \in 1..(j - 1) : Apart(i, j)

\* Both passes are over: the filler pass made three calls, one of which was
\* dropped, and placed two bells next to a main-pass item.
C18_Witness ==
  /\ gpc = "done"
  /\ placedCount >= 1
  /\ extraPlaced = 2
  /\ loopI = 3

\* How far the generation has come: the pass, the calls made in it and the
\* attempts of the call in progress.  PassSpan is more than a pass can cover.
CallSpan == maxAttempts + 2
PassSpan == (2 * (TargetCount + ExtraCount) + 2) * CallSpan
Rank ==
  CASE gpc = "foliage"    -> Len(positions)
    [] gpc = "main"       -> PassSpan + loopI * CallSpan
    [] gpc = "mainItem"   -> PassSpan + loopI * CallSpan + 1 + attempts
    [] gpc = "filler"     -> 2 * PassSpan + loopI * CallSpan
    [] gpc = "fillerItem" -> 2 * PassSpan + loopI * CallSpan + 1 + attempts
    [] gpc = "done"       -> 3 * PassSpan

\* One step of the generation, seen from its loops and its id counter.
PassStep ==
  /\ Rank' > Rank
  /\ (gpc = "main" /\ placedCount = TargetCount) => (gpc' = "filler" /\ idCounter' = idCounter)
  /\ (gpc \in {"main", "filler"} /\ gpc' \in {"mainItem", "fillerItem"}) =>
       (callId' = idCounter /\ idCounter' = idCounter + 1)
  /\ gpc' \notin {"mainItem", "fillerItem"} \/ gpc' = gpc => idCounter' = idCounter
  /\ Len(placedItems') > Len(placedItems) =>
       \E a \in Arrays :
         /\ Len(data'[a]) = Len(data[a]) + 1
         /\ data' = [data EXCEPT ![a] = Append(@, data'[a][Len(data'[a])])]
         /\ data'[a][Len(data'[a])].id = callId

\* C19: the generation terminates (every step takes it further, there is a
\* furthest point, and it can go on until both loops are over); the main pass
\* makes at most 1.5 * ORNAMENT_COUNT createItem calls (900 for 600), places
\* at most ORNAMENT_COUNT items and makes no call once that many are placed;
\* each call takes the next id, whether it places an item or not, so the
\* placed ornaments of both passes have distinct ids, and each is in one
\* per-category array, the one of its type.
C19_Terminates ==
  /\ [][PassStep]_vars
  /\ [](/\ Rank <= 3 * PassSpan
        /\ gpc # "done" => ENABLED GenNext
        /\ placedCount <= TargetCount
        /\ gpc \in {"main", "mainItem"} => 2 * CallsMade <= 3 * TargetCount + 1
        /\ \A item \in Ornaments : item.id < idCounter
        /\ \A a \in Arrays : \A k \in 1..Len(data[a]) :
             /\ ArrayOf(data[a][k].type) = a
             /\ \A b \in Arrays : \A m \in 1..Len(data[b]) :
                  data[b][m].id = data[a][k].id => (b = a /\ m = k)
        /\ Cardinality(Ornaments) = Len(placedItems))

\* Both loops are over: the main pass has placed its full count, the filler
\* pass has placed a bell, and a dropped call has left a gap in the ids.
C19_Witness ==
  /\ gpc = "done"
  /\ placedCount = TargetCount
  /\ extraPlaced >= 1
  /\ idCounter > Len(placedItems)
  /\ lastCall.result = "item"

\* The lerp rate of an ornament in the current Mode, in thousandths.
RateOf(item) == IF treeState = "TREE_SHAPE" THEN item.weight * 10 ELSE item.weight * 25

\* Coordinate x has moved to y by rate * (target - x), to half a unit of
\* length, without passing the target or moving away from it.
Eased(x, y, target, rate) ==
  /\ Abs(1000 * (y - x) - rate * (target - x)) <= 500
  /\ IF x <= target THEN x <= y /\ y <= target ELSE target <= y /\ y <= x
  /\ Abs(target - y) <= Abs(target - x)

\* One step seen from the ornaments: a click leaves them where they are, a
\* frame eases every coordinate of every ornament toward its target.
OrnamentStep ==
  IF treeState' # treeState \/ modeWrites' # modeWrites
    THEN posArr' = posArr
    ELSE \A a \in Arrays : \A k \in 1..Len(data[a]) : \A c \in 1..3 :
           Eased(posArr[a][k][c], posArr'[a][k][c], TargetOf(data[a][k])[c],
                 RateOf(data[a][k]))

OrnamentTypes == {"box", "sphere", "icicle", "candyCane", "snowflake", "bell"}

Dist3Sq(p, q) ==
  (p[1] - q[1]) * (p[1] - q[1]) + (p[2] - q[2]) * (p[2] - q[2]) + (p[3] - q[3]) * (p[3] - q[3])

ThumbNearIndex(hand) == Dist3Sq(hand.thumbTip, hand.indexTip) < 50 * 50

RECURSIVE WristSum(_)
WristSum(hands) == IF hands = <<>> THEN 0 ELSE hands[1].wrist[1] + WristSum(Tail(hands))

HandsStep ==
  \A i \in 1..Len(gc) :
    (ProcessedBy(i) /\ ShowsHands(gc'[i])) =>
       LET hands == gc'[i].results.landmarks
           n == Len(hands)
           pinch == \E k \in 1..n : ThumbNearIndex(hands[k])
       IN  /\ gc'[i].pinchSmoother = updateScale(gc[i].pinchSmoother, pinch)
           /\ photoScale' = gc'[i].pinchSmoother
           /\ n * rotationMod' = 5 * (500 * n - WristSum(hands))
           /\ WristSum(hands) = 500 * n => rotationMod' = 0

\* C21: a processed frame with n >= 1 hands updates the scale as a pinching
\* frame exactly when some hand's thumb tip is less than 0.05 from its index
\* tip (in three dimensions), and sets the rotation bias to (0.5 - avgX) * 5.0,
\* avgX being the mean wrist x of the n hands; the bias is 0 when that mean is 0.5.
C21_PinchAndRotation == [][HandsStep]_vars

\* Two hands, wrists at 0.3 and 0.5, one of them pinching, met at scale 1.0:
\* the scale has gone to 1.9 and the bias to (0.5 - 0.4) * 5 = 0.5.
C21_Witness ==
  /\ Len(gc) >= 1
  /\ gc[1].results = Detected(<<RelaxedHand, PinchHand>>)
  /\ gc[1].pinchSmoother = (19 * ScaleUnit) \div 10
  /\ photoScale = (19 * ScaleUnit) \div 10
  /\ rotationMod = 500

\* ------------------------------------------------------ claims: presentation

\* The point in front of the viewer a photo is pinned to, in world coordinates:
\* (0, 4, 25 + 0.05 * the last digit of its id).
PinnedWorld(photo) == <<0, 4 * PosUnit, 25 * PosUnit + ((photo.id % 10) * PosUnit) \div 20>>

\* The pinned point in the coordinates of the photos' parent, as of the last
\* render or as of this frame.
PinnedTargets(photo) == {InvRot(r, PinnedWorld(photo)) : r \in {worldRot, groupRot'}}

PresentationStep ==
  /\ IsFrame =>
       \A k \in 1..Len(photos) :
         IF photoScale > 2 * ScaleUnit
           THEN \E target \in PinnedTargets(photos[k]) :
                  framePos'[k] = Lerp3(framePos[k], target, 200)
           ELSE IF treeState = "TREE_SHAPE"
             THEN BobbedBy(Lerp3(framePos[k], photos[k].treePos, 80), framePos'[k], 2)
             ELSE framePos'[k] = Lerp3(framePos[k], photos[k].scatterPos, 20)
  /\ (treeState' # treeState /\ photoScale > 2 * ScaleUnit) =>
       /\ photoScale' = photoScale
       /\ worldRot' = worldRot
       /\ photos' = photos
       /\ framePos' = framePos

\* C22: in a frame met with the scale signal above 2.0 every photo moves 0.2
\* of the way to the point pinned in front of the viewer, whatever the Mode,
\* and a Mode write changes nothing that point is computed from; in a frame met
\* with the scale signal at most 2.0 a photo moves 0.08 of the way to treePos
\* in TREE_SHAPE (plus the sway of at most 0.002 in y) and 0.02 of the way to
\* scatterPos in SCATTERED.
C22_PresentationTarget == [][PresentationStep]_vars

\* A photo zoomed to 10.0 in TREE_SHAPE, one frame after it appeared: it has
\* gone a fifth of the way from the origin to the pinned point.
C22_Witness ==
  /\ photoScale = 10 * ScaleUnit
  /\ treeState = "TREE_SHAPE"
  /\ frame = 1
  /\ Len(photos) >= 1
  /\ framePos[1] = Lerp3(<<0, 0, 0>>, PinnedWorld(photos[1]), 200)
  /\ framePos[1] # Lerp3(<<0, 0, 0>>, photos[1].treePos, 80)

\* ---------------------------------------------------------- claims: polling

\* What one run of the detection branch on results r writes, from smoother s.
OneRun(r, s) == Processed(r, s)

PollStep ==
  /\ \A i \in 1..Len(gc) :
       /\ ProcessedBy(i) =>
            /\ gc[i].landmarker /\ gc[i].videoRef
            /\ gc'[i].lastVideoTime > gc[i].lastVideoTime
            /\ gc'[i].pinchSmoother = OneRun(gc'[i].results, gc[i].pinchSmoother).smoother
            /\ photoScale' = gc'[i].pinchSmoother
            /\ rotationMod' = OneRun(gc'[i].results, gc[i].pinchSmoother).rotation
            /\ gc'[i].rafPending
       /\ ~ProcessedBy(i) =>
            /\ gc'[i].pinchSmoother = gc[i].pinchSmoother
            /\ gc'[i].results = gc[i].results
       /\ (gc[i].listening /\ ~gc'[i].listening) => gc'[i].rafPending
       /\ (gc[i].rafPending /\ ~gc'[i].rafPending) => (gc[i].mounted /\ ~gc'[i].mounted)
  /\ (\A i \in 1..Len(gc) : ~ProcessedBy(i)) =>
       UNCHANGED <<treeState, modeWrites, photoScale, rotationMod>>

\* Every predict call that can happen finds the landmarker and the video.
NeverMissing ==
  \A i \in 1..Len(gc) :
    (gc[i].rafPending \/ gc[i].listening) => (gc[i].landmarker /\ gc[i].videoRef)

\* C23: the detection runs at most once per video frame.  A step in which no
\* controller's last processed time moves (a predict call that meets the time
\* it processed last is such a step) writes no Mode, scale or rotation value
\* and leaves the smoother alone; a step that moves it moves it forward, runs
\* the update once and writes its results; every predict call leaves a call
\* scheduled, and a scheduled call goes away only by the cleanup; the
\* landmarker and the video element are there at every call.
C23_OncePerFrame == [](NeverMissing) /\ [][PollStep]_vars

\* The feed has ended with its last frame processed, and the loop is still
\* scheduled: from here on every predict call meets the time it processed last.
C23_Witness ==
  /\ Len(gc) >= 1
  /\ gc[1].mounted
  /\ gc[1].trackLive
  /\ gc[1].lastVideoTime = videoEnd
  /\ gc[1].rafPending
  /\ ENABLED AnimationFrame

\* ------------------------------------------------------ claims: the smoother

InRange(scale) == ScaleUnit <= scale /\ scale <= 10 * ScaleUnit

SmootherInRange == \A i \in 1..Len(gc) : InRange(gc[i].pinchSmoother)

Pinching(c) == ShowsHands(c) /\ SomeHand(c, IsPinchHand)

ReleaseStep ==
  \A i \in 1..Len(gc) :
    (ProcessedBy(i) /\ ~Pinching(gc'[i])) =>
       \/ gc'[i].pinchSmoother = ScaleUnit
       \/ 20 * (gc'[i].pinchSmoother - ScaleUnit) >= ScaleUnit

\* C24: the smoother stays between 1.0 and 10.0, whatever frames are
\* processed, and after a processed frame without a pinch it is exactly 1.0 or
\* at least 1.05.
C24_SmootherRange == [](SmootherInRange) /\ [][ReleaseStep]_vars

\* A run of frames without a hand has brought the smoother below 1.1 and not
\* yet to 1.0: the next such frame takes it within 0.05 of 1.0.
C24_Witness ==
  /\ Len(gc) >= 1
  /\ quiet >= 1
  /\ ~Pinching(gc[1])
  /\ gc[1].pinchSmoother > ScaleUnit
  /\ 10 * (gc[1].pinchSmoother - ScaleUnit) < ScaleUnit
  /\ updateScale(gc[1].pinchSmoother, FALSE) = ScaleUnit

\* ------------------------------------------------ claims: the two scale writers

\* The smoother after one update for the frame a controller has just processed.
NextSmoother(before, c) == updateScale(before, Pinching(c))

OverwriteStep ==
  \A i \in 1..Len(gc) :
    /\ ProcessedBy(i) =>
         /\ gc'[i].pinchSmoother = NextSmoother(gc[i].pinchSmoother, gc'[i])
         /\ photoScale' = gc'[i].pinchSmoother
    /\ toggleZoom => gc'[i].pinchSmoother = gc[i].pinchSmoother

\* C25: after each processed video frame the scale signal is the smoother's
\* new value, which is one update of the smoother's previous value; the scale
\* signal as it was before the frame (a 1.0 or 10.0 written by the zoom button
\* included) does not enter it, and the zoom button does not write the smoother.
C25_SmootherOverwrites == [][OverwriteStep]_vars

\* The smoother stands at 1.9 after a pinching frame, the zoom button has since
\* set the scale signal to 10.0, and the loop is about to process a new frame.
C25_Witness ==
  /\ isCameraEnabled
  /\ Len(gc) >= 1
  /\ gc[1].mounted
  /\ gc[1].pinchSmoother = (19 * ScaleUnit) \div 10
  /\ photoScale = 10 * ScaleUnit
  /\ gc[1].rafPending
  /\ gc[1].trackLive
  /\ gc[1].lastVideoTime < videoEnd

\* ------------------------------------------------------ claims: camera on/off

Signals == <<treeState, photoScale, rotationMod>>

CameraStep ==
  /\ (isCameraEnabled /\ ~isCameraEnabled') =>
       /\ Signals' = Signals
       /\ modeWrites' = modeWrites
       /\ \A i \in 1..Len(gc) : gc'[i].pinchSmoother = gc[i].pinchSmoother
  /\ (~isCameraEnabled /\ isCameraEnabled') =>
       /\ Signals' = Signals
       /\ Len(gc') = Len(gc) + 1
       /\ gc'[Len(gc')].pinchSmoother = ScaleUnit
  /\ Signals' # Signals => \E i \in 1..Len(gc) : ProcessedBy(i)
  /\ \A i \in 1..Len(gc) :
       (ProcessedBy(i) /\ gc[i].lastVideoTime < 0) =>
          photoScale' = updateScale(ScaleUnit, Pinching(gc'[i]))

\* C26: switching the camera off writes none of Mode, scale signal and
\* rotation bias, which stay as they are until a processed frame writes them;
\* switching it on mounts a controller whose smoother is 1.0 whatever the
\* scale signal is, so that its first processed frame sets the scale signal to
\* one update from 1.0.
C26_CleanupLeavesSignals == [][CameraStep]_vars

\* The camera was switched off after a frame with a pinching hand and a wrist
\* left of the centre: scale 1.9 and rotation bias 0.5 are still there.
C26_Witness ==
  /\ ~isCameraEnabled
  /\ Len(gc) = 1
  /\ ~gc[1].mounted
  /\ gc[1].results = Detected(<<RelaxedHand, PinchHand>>)
  /\ photoScale = (19 * ScaleUnit) \div 10
  /\ rotationMod = 500

\* ---------------------------------------------------------- claims: photo ids

\* C27 (as stated): the photos of the collection have pairwise distinct ids,
\* whatever the uploads and whenever their decode callbacks complete.
C27_DistinctIds ==
  \A j, k \in 1..Len(photos) : j # k => photos[j].id # photos[k].id

\* ------------------------------------------------- claims: collision radius

\* The radius the rule of a category gives for a scale: box 0.7 * scale,
\* sphere scale, bell and snowflake 0.6 * scale, icicle 0.2, candy cane 0.3.
RuleRadius(type, scale) ==
  IF type = "box" THEN (7 * scale) \div 10
  ELSE IF type = "sphere" THEN scale
  ELSE IF type \in {"bell", "snowflake"} THEN (6 * scale) \div 10
  ELSE IF type = "icicle" THEN PosUnit \div 5
  ELSE (3 * PosUnit) \div 10

\* The radius recorded in placedItems for the ornament placed at treePos.
RecordedRadius(item) ==
  LET j == CHOOSE j \in 1..Len(placedItems) : placedItems[j].pos = item.treePos
  IN  placedItems[j].radius

\* C28 (as stated): for every ornament in the category arrays, bottom-filler
\* bells included, the radius recorded in placedItems is the radius its
\* category's rule gives for the scale it is rendered with.
C28_RadiusMatchesScale ==
  \A a \in Arrays :
    \A k \in 1..Len(data[a]) :
      /\ \E j \in 1..Len(placedItems) : placedItems[j].pos = data[a][k].treePos
      /\ RecordedRadius(data[a][k]) = RuleRadius(data[a][k].type, data[a][k].scale)

\* ------------------------------------------------------ claims: zoom control

\* The zoom button is drawn as active (part_001:133).
ShownActive == 2 * photoScale > 3 * ScaleUnit

\* The photos are pinned in front of the viewer (part_000:22).
Presenting == photoScale > 2 * ScaleUnit

ToggleFlips == toggleZoom => ((photoScale' > 2 * ScaleUnit) <=> ~Presenting)

\* C29 (as stated): whenever the zoom button is shown as active the photos are
\* in presentation mode, and a click of the zoom button leaves presentation
\* mode when it is on and enters it when it is off, for every scale the button
\* or the gesture smoother produces.
C29_ZoomControlMatches == [](ShownActive => Presenting) /\ [][ToggleFlips]_vars

\* ------------------------------------------------------ claims: open and fist

\* The mean distance of the four fingertips from the wrist, times four.
Spread(hand) == SumDist(hand)

\* The frame shows two hands, one open (mean above 0.4) and one a fist (below 0.25).
OpenAndFist(c) ==
  /\ c.results.present
  /\ Len(c.results.landmarks) = 2
  /\ \E a, b \in 1..2 :
       /\ a # b
       /\ Spread(c.results.landmarks[a]) > 4 * 400
       /\ Spread(c.results.landmarks[b]) < 4 * 250

OpenWinsStep ==
  \A i \in 1..Len(gc) :
    (ProcessedBy(i) /\ OpenAndFist(gc'[i])) =>
       /\ treeState' = "SCATTERED"
       /\ modeWrites' = IF modeWrites < MaxModeWrites THEN modeWrites + 1 ELSE modeWrites

\* C30: a processed frame that shows two hands, one open and one a fist, in
\* either order, makes one Mode write, and it writes SCATTERED.
C30_OpenBeatsFist == [][OpenWinsStep]_vars

\* A fist alone has set TREE_SHAPE; the next frame shows a fist and an open
\* hand, the fist first in the list, and has set SCATTERED by a second write.
C30_Witness ==
  /\ Len(gc) >= 1
  /\ gc[1].results = Detected(<<FistHand, OpenHand>>)
  /\ gc[1].lastVideoTime = 1
  /\ handsLeft = MaxHandFrames - 2
  /\ treeState = "SCATTERED"
  /\ modeWrites = 2

====
